---- MODULE Spec2Model ----
(***************************************************************************)
(* CidChecker (filplus-checker): the check pipeline of src/unnamed/part_001 *)
(* as a state machine.  One run of check is a chain of awaits; every await  *)
(* is one action.  The three distribution fetches of Promise.all are three  *)
(* branches that interleave.  The collaborators (registry, glif, database,  *)
(* ipinfo, spark, github) answer as the record env says; env is chosen in   *)
(* Init and never changes.                                                  *)
(*                                                                         *)
(* Numbers: a JavaScript float is modelled as an exact fraction [n, d];     *)
(* 0/0 is NaN and compares false with everything.  Float rounding is not    *)
(* modelled.  An optional value (T | null, T | undefined) is a sequence of  *)
(* length 0 or 1; an undefined string field is the string Undef.            *)
(*                                                                         *)
(* Documents are sequences of lines.  The backticks of the markdown the     *)
(* code emits are written as apostrophes.  A table is one line that names   *)
(* the table and the number of its rows.                                    *)
(***************************************************************************)
EXTENDS Integers, Sequences, FiniteSets, TLC

VARIABLES
    env,                    \* what the collaborators answer during the runs
    pc,                     \* position of the current check run
    run,                    \* number of check runs started
    cache,                  \* CidChecker.issueApplicationInfoCache
    upstreamCalls,          \* registry lookups issued so far, per address
    finds,                  \* history of the completed findApplicationInfoForClient calls
    reports,                \* table generated_reports
    address,                \* check: address
    pending,                \* check: the findApplicationInfoForClient call awaited
    applicationInfo,        \* check: applicationInfo
    addressGroup,           \* check: addressGroup
    clientIds,              \* check: clientIds
    criteria,               \* check: criteria
    brA, brB, brC,          \* Promise.all: position of each of the three fetches
    result,                 \* branch A: rows of getStorageProviderDistribution
    firstClientByProvider,  \* branch A: firstClientByProvider
    withLocations,          \* branch A: withLocations
    providerDistributions,  \* check: providerDistributions
    replicationDistributions, \* check: replicationDistributions
    cidSharing,             \* check: cidSharing
    retrievability,         \* check: retrievability
    avgProviderScore,       \* check: avgProviderScore
    cidSharingRows,         \* check: cidSharingRows, one promise per share
    images,                 \* check: the urls of the two images
    otherIdx,               \* check: position of the loop over addressGroup
    content,                \* check: content
    summary,                \* check: summary
    contentUrl,             \* check: contentUrl
    calls,                  \* external calls issued by the current run, per kind
    returned,               \* what check returned or threw
    read                    \* what the latest read of the generated reports returned

vars == <<env, pc, run, cache, upstreamCalls, finds, reports, address, pending,
          applicationInfo, addressGroup, clientIds, criteria, brA, brB, brC,
          result, firstClientByProvider, withLocations, providerDistributions,
          replicationDistributions, cidSharing, retrievability, avgProviderScore,
          cidSharingRows, images, otherIdx, content, summary, contentUrl, calls, returned,
          read>>

----------------------------------------------------------------------------
(* Values *)

Undef == "<undefined>"

Frac(n, d) == [n |-> n, d |-> d]

Zero == Frac(0, 1)

IsNaN(f) == f.d = 0 /\ f.n = 0

\* a > b on floats: false when either side is NaN
FGT(a, b) == ~IsNaN(a) /\ ~IsNaN(b) /\ a.n * b.d > b.n * a.d

\* a < b on floats
FLT(a, b) == FGT(b, a)

\* a === 0
FIsZero(f) == f.d # 0 /\ f.n = 0

\* a + b
FAdd(a, b) ==
    IF IsNaN(a) \/ IsNaN(b) THEN Frac(0, 0)
    ELSE IF a.d = b.d THEN Frac(a.n + b.n, a.d)
    ELSE Frac(a.n * b.d + b.n * a.d, a.d * b.d)

\* a / b for non-negative integers a, b
FDiv(a, b) == Frac(a, b)

Pad2(k) == IF k < 10 THEN "0" \o ToString(k) ELSE ToString(k)

\* (f * 100).toFixed(2)
ToFixed2(f) ==
    IF f.d = 0 THEN (IF f.n = 0 THEN "NaN" ELSE "Infinity")
    ELSE LET bp == (f.n * 20000 + f.d) \div (2 * f.d)
         IN  ToString(bp \div 100) \o "." \o Pad2(bp % 100)

\* (f * 100).toFixed(0)
ToFixed0(f) ==
    IF f.d = 0 THEN (IF f.n = 0 THEN "NaN" ELSE "Infinity")
    ELSE ToString((f.n * 200 + f.d) \div (2 * f.d))

Min(a, b) == IF a < b THEN a ELSE b

RECURSIVE FSum(_)
\* xs.reduce((a, b) => a + b, 0)
FSum(s) == IF s = <<>> THEN Zero ELSE FAdd(FSum(SubSeq(s, 1, Len(s) - 1)), s[Len(s)])

Range(s) == {s[i] : i \in DOMAIN s}

Contains(s, x) == \E i \in DOMAIN s : s[i] = x

----------------------------------------------------------------------------
(* async-retry *)

LookupRetries == 6

QueryRetries == 3

RpcRetries == 3

GeoRetries == 3

GithubRetries == 3

LatestReportRetries == 3

\* completed calls are counted up to here
MaxReturns == 2

\* the most consecutive failures a collaborator answers one call with
MaxFails == 7

\* a call succeeds at once, after one failure, or never within any retry budget
Fails == {0, 1, MaxFails}

\* retry(fn, { retries }): fn runs until it succeeds, at most retries + 1 times;
\* fails is the number of consecutive failures the collaborator answers with
RetrySucceeds(fails, retries) == fails <= retries

RetryAttempts(fails, retries) == Min(fails, retries) + 1

----------------------------------------------------------------------------
(* findApplicationInfoForClient: the pure part *)

RECURSIVE Reduce(_, _)
\* data.reduce((prev, curr) => parseInt(prev.initialAllowance) >
\*                             parseInt(curr.initialAllowance) ? prev : curr)
\* over data \o <<...>>, prev being the value so far
Reduce(prev, rest) ==
    IF rest = <<>> THEN prev
    ELSE Reduce(IF prev.initialAllowance > Head(rest).initialAllowance
                THEN prev ELSE Head(rest), Tail(rest))

Primary(data) == Reduce(Head(data), Tail(data))

OrEmpty(s) == IF s = Undef THEN "" ELSE s

\* allowanceArray[0]?.auditTrail
FirstAuditTrail(rec) ==
    IF rec.allowanceArray = <<>> THEN <<>> ELSE rec.allowanceArray[1].auditTrail

ApplicationInfoOf(client, data) ==
    LET primary == Primary(data)
        trail == FirstAuditTrail(primary)
    IN  [clientAddress |-> client,
         organizationName |-> OrEmpty(primary.name) \o OrEmpty(primary.orgName),
         url |-> IF trail = <<>> THEN Undef ELSE trail[1].dir \o "/" \o trail[1].leaf,
         verifier |-> primary.verifierName,
         issueNumber |-> IF trail = <<>> THEN Undef ELSE trail[1].leaf,
         numberOfAllocations |-> Len(primary.allowanceArray)]

\* what the awaited lookup resolves to: a value (null is <<>>) or a throw
LookupOutcome(client, fails, data) ==
    IF ~RetrySucceeds(fails, LookupRetries)
    THEN [threw |-> TRUE, value |-> <<>>]
    ELSE IF data = <<>>
    THEN [threw |-> FALSE, value |-> <<>>]
    ELSE [threw |-> FALSE, value |-> <<ApplicationInfoOf(client, data)>>]

\* the records the registry answers the k-th lookup of client with
RegistryResponse(e, client, k) ==
    LET answers == e.registry[client]
    IN  answers[Min(k, Len(answers))]

\* a cache that takes a null entry for a missing one
CacheHasRecord(c, client) == client \in DOMAIN c /\ c[client] # <<>>

\* issueApplicationInfoCache.has(client)
CacheHas(c, client) == client \in DOMAIN c

CacheSet(c, client, value) ==
    [a \in DOMAIN c \cup {client} |-> IF a = client THEN value ELSE c[a]]

----------------------------------------------------------------------------
(* getStorageProviderDistribution, getReplicationDistribution *)

RECURSIVE TotalDealSize(_)
\* distributions.reduce((acc, cur) => acc + parseFloat(cur.total_deal_size), 0)
TotalDealSize(rows) ==
    IF rows = <<>> THEN 0 ELSE Head(rows).total_deal_size + TotalDealSize(Tail(rows))

Percentage(row, total) == FDiv(row.total_deal_size, total)

StorageProviderDistribution(rows) ==
    LET total == TotalDealSize(rows)
    IN  [i \in DOMAIN rows |->
            [provider |-> rows[i].provider,
             total_deal_size |-> rows[i].total_deal_size,
             unique_data_size |-> rows[i].unique_data_size,
             duplication_percentage |-> rows[i].duplication_percentage,
             percentage |-> Percentage(rows[i], total)]]

ReplicationDistribution(rows) ==
    LET total == TotalDealSize(rows)
    IN  [i \in DOMAIN rows |->
            [num_of_replicas |-> rows[i].num_of_replicas,
             total_deal_size |-> rows[i].total_deal_size,
             unique_data_size |-> rows[i].unique_data_size,
             percentage |-> Percentage(rows[i], total)]]

----------------------------------------------------------------------------
(* getLocation *)

\* ipinfo.io: what the geo lookup answers for an address
IpInfo(ip) ==
    CASE ip = "10.0.0.1" ->
           [fails |-> 0, bogon |-> TRUE, city |-> Undef, region |-> Undef,
            country |-> Undef, org |-> <<>>]
      [] ip = "1.1.1.1" ->
           [fails |-> 0, bogon |-> FALSE, city |-> "Paris", region |-> "IDF",
            country |-> "FR", org |-> <<"Alpha Net">>]
      [] ip = "2.2.2.2" ->
           [fails |-> 1, bogon |-> FALSE, city |-> "Paris", region |-> "IDF",
            country |-> "FR", org |-> <<"Beta Hosting">>]
      [] ip = "3.3.3.3" ->
           [fails |-> 0, bogon |-> FALSE, city |-> "Tokyo", region |-> "Tokyo",
            country |-> "JP", org |-> <<"Alpha Net">>]
      [] ip = "5.5.5.5" ->
           [fails |-> 0, bogon |-> FALSE, city |-> Undef, region |-> Undef,
            country |-> Undef, org |-> <<>>]
      [] OTHER ->
           [fails |-> GeoRetries + 1, bogon |-> FALSE, city |-> Undef,
            region |-> Undef, country |-> Undef, org |-> <<>>]

\* getIpFromMultiaddr: the addresses of one multiaddr, or a throw
IpFromMultiaddr(m) ==
    CASE m.proto \in {"dns4", "dns6"} ->
           [threw |-> ~m.resolves, ips |-> IF m.resolves THEN m.ips ELSE <<>>]
      [] m.proto \in {"ip4", "ip6"} -> [threw |-> FALSE, ips |-> m.ips]
      [] OTHER -> [threw |-> FALSE, ips |-> <<>>]

RECURSIVE CollectIps(_, _)
\* the first loop of getLocation: ips, or failed at the first multiaddr that throws
CollectIps(multiaddrs, ips) ==
    IF multiaddrs = <<>> THEN [failed |-> FALSE, ips |-> ips]
    ELSE LET r == IpFromMultiaddr(Head(multiaddrs))
         IN  IF r.threw THEN [failed |-> TRUE, ips |-> <<>>]
             ELSE CollectIps(Tail(multiaddrs), ips \o r.ips)

LocationOf(data) ==
    [city |-> data.city, region |-> data.region, country |-> data.country,
     orgName |-> IF data.org = <<>> THEN "Unknown" ELSE data.org[1]]

RECURSIVE GeoLoopAll(_, _)
\* a loop that goes on asking after the first answer that is not a bogon
GeoLoopAll(ips, asked) ==
    IF ips = <<>> THEN [threw |-> FALSE, location |-> <<>>, asked |-> asked]
    ELSE LET data == IpInfo(Head(ips))
             now == Append(asked, Head(ips))
             rest == GeoLoopAll(Tail(ips), now)
         IN  IF ~RetrySucceeds(data.fails, GeoRetries)
             THEN [threw |-> TRUE, location |-> <<>>, asked |-> now]
             ELSE IF data.bogon \/ rest.threw THEN rest
             ELSE [threw |-> FALSE, location |-> <<LocationOf(data)>>,
                   asked |-> rest.asked]

RECURSIVE GeoLoop(_, _)
\* the second loop of getLocation; asked is the sequence of addresses looked up
GeoLoop(ips, asked) ==
    IF ips = <<>> THEN [threw |-> FALSE, location |-> <<>>, asked |-> asked]
    ELSE LET data == IpInfo(Head(ips))
             now == Append(asked, Head(ips))
         IN  IF ~RetrySucceeds(data.fails, GeoRetries)
             THEN [threw |-> TRUE, location |-> <<>>, asked |-> now]
             ELSE IF data.bogon THEN GeoLoop(Tail(ips), now)
             ELSE [threw |-> FALSE, location |-> <<LocationOf(data)>>, asked |-> now]

\* getLocation(provider) with net the provider's miner info and network
GetLocation(net) ==
    IF ~RetrySucceeds(net.minerFails, RpcRetries)
    THEN [threw |-> TRUE, location |-> <<>>, asked |-> <<>>]
    ELSE IF net.multiaddrs = <<>>
    THEN [threw |-> FALSE, location |-> <<>>, asked |-> <<>>]
    ELSE LET c == CollectIps(net.multiaddrs, <<>>)
         IN  IF c.failed THEN [threw |-> FALSE, location |-> <<>>, asked |-> <<>>]
             ELSE GeoLoop(c.ips, <<>>)

\* { ...item, ...location, new: isNew }
WithLocation(item, location, isNew) ==
    [provider |-> item.provider,
     total_deal_size |-> item.total_deal_size,
     unique_data_size |-> item.unique_data_size,
     duplication_percentage |-> item.duplication_percentage,
     percentage |-> item.percentage,
     city |-> IF location = <<>> THEN Undef ELSE location[1].city,
     region |-> IF location = <<>> THEN Undef ELSE location[1].region,
     country |-> IF location = <<>> THEN Undef ELSE location[1].country,
     orgName |-> IF location = <<>> THEN Undef ELSE location[1].orgName,
     new |-> isNew]

\* clientIds.includes(firstClientByProvider.find(row => row.provider === p)?.first_client ?? '')
IsNew(ids, rows, p) ==
    LET hits == SelectSeq(rows, LAMBDA r : r.provider = p)
    IN  Contains(ids, IF hits = <<>> THEN "" ELSE hits[1].first_client)

\* the strings localeCompare meets here, in its order
Collation == <<"", "Alpha Net", "Beta Hosting", "Unknown">>

Rank(s) == CHOOSE i \in DOMAIN Collation : Collation[i] = s

\* (a, b) => a.orgName?.localeCompare(b.orgName ?? '') ?? 0
CompareOrgName(a, b) ==
    IF a.orgName = Undef THEN 0
    ELSE Rank(a.orgName) - Rank(OrEmpty(b.orgName))

RECURSIVE Insert(_, _)
\* x put into the sorted sequence s, after every element it does not precede
Insert(s, x) ==
    IF s = <<>> THEN <<x>>
    ELSE IF CompareOrgName(x, s[Len(s)]) < 0
    THEN Append(Insert(SubSeq(s, 1, Len(s) - 1), x), s[Len(s)])
    ELSE Append(s, x)

RECURSIVE SortByOrgName(_)
\* withLocations.sort(...): the stable insertion sort the engine uses for short arrays
SortByOrgName(s) ==
    IF s = <<>> THEN <<>>
    ELSE Insert(SortByOrgName(SubSeq(s, 1, Len(s) - 1)), s[Len(s)])

----------------------------------------------------------------------------
(* providersRetrievability *)

\* createRetrievability: the inner join of the providers with the spark data
CreateRetrievability(distributions, sparkData) ==
    LET Matching(d) == SelectSeq(sparkData, LAMBDA x : x.miner_id = d.provider)
        joined == SelectSeq(distributions, LAMBDA d : Matching(d) # <<>>)
    IN  [i \in DOMAIN joined |->
            [provider_id |-> Matching(joined[i])[1].miner_id,
             success_rate |-> Matching(joined[i])[1].success_rate,
             total_deal_size |-> joined[i].total_deal_size]]

\* success_rate * total_deal_size
Weighted(item) == Frac(item.success_rate.n * item.total_deal_size, item.success_rate.d)

\* the mean of the success rates, whatever the deal sizes
CalculateAvgProviderScoreUnweighted(matched) ==
    LET totalSuccessRate == FSum([i \in DOMAIN matched |-> matched[i].success_rate])
    IN  IF FIsZero(totalSuccessRate) \/ Len(matched) = 0 THEN Zero
        ELSE Frac(totalSuccessRate.n, totalSuccessRate.d * Len(matched))

CalculateAvgProviderScore(matched) ==
    LET totalClientDealSize == TotalDealSize(matched)
        totalSuccessRate == FSum([i \in DOMAIN matched |-> Weighted(matched[i])])
    IN  IF FIsZero(totalSuccessRate) \/ totalClientDealSize = 0 THEN Zero
        ELSE Frac(totalSuccessRate.n, totalSuccessRate.d * totalClientDealSize)

\* a failed fetch taken for statistics of no successful retrieval
ProvidersRetrievabilityZeroed(distributions, spark) ==
    LET data == IF spark.ok THEN spark.data
                ELSE [i \in DOMAIN distributions |->
                        [miner_id |-> distributions[i].provider, success_rate |-> Zero]]
        r == CreateRetrievability(distributions, data)
    IN  IF r = <<>> THEN [retrievability |-> <<>>, avgProviderScore |-> Zero]
        ELSE [retrievability |-> r, avgProviderScore |-> CalculateAvgProviderScore(r)]

\* providersRetrievability: spark is the answer of the statistics service
ProvidersRetrievability(distributions, spark) ==
    IF ~spark.ok THEN [retrievability |-> <<>>, avgProviderScore |-> Zero]
    ELSE LET r == CreateRetrievability(distributions, spark.data)
         IN  IF r = <<>> THEN [retrievability |-> <<>>, avgProviderScore |-> Zero]
             ELSE [retrievability |-> r, avgProviderScore |-> CalculateAvgProviderScore(r)]

----------------------------------------------------------------------------
(* The two documents of check: content (full) and summary *)

Warning == ":warning:"

HeavyCheckMark == ":heavy_check_mark:"

RECURSIVE Join(_, _)
\* parts.join(sep)
Join(parts, sep) ==
    IF parts = <<>> THEN ""
    ELSE IF Len(parts) = 1 THEN parts[1]
    ELSE parts[1] \o sep \o Join(Tail(parts), sep)

WrapInCode(s) == "'" \o s \o "'"

\* generateLink(provider, the filfox address page of provider)
ProviderLink(p) == "[" \o p \o "](https://filfox.info/en/address/" \o p \o ")"

\* ordinal(n)
Ordinal(n) ==
    ToString(n) \o (CASE n % 10 = 1 /\ n % 100 # 11 -> "st"
                      [] n % 10 = 2 /\ n % 100 # 12 -> "nd"
                      [] n % 10 = 3 /\ n % 100 # 13 -> "rd"
                      [] OTHER -> "th")

\* a document pair and the three ways the code appends to it
Doc(c, s) == [content |-> c, summary |-> s]

PushContent(doc, str) == Doc(Append(doc.content, str), doc.summary)

PushSummary(doc, str) == Doc(doc.content, Append(doc.summary, str))

\* pushBoth that forgets the full document
PushBothSummaryOnly(doc, str) == PushSummary(doc, str)

\* pushBoth of lines 701-704
PushBoth(doc, str) == Doc(Append(doc.content, str), Append(doc.summary, str))

RECURSIVE PushAllContent(_, _)
PushAllContent(doc, strs) ==
    IF strs = <<>> THEN doc
    ELSE PushAllContent(PushContent(doc, Head(strs)), Tail(strs))

RECURSIVE PushAllBoth(_, _)
PushAllBoth(doc, strs) ==
    IF strs = <<>> THEN doc
    ELSE PushAllBoth(PushBoth(doc, Head(strs)), Tail(strs))

\* CidChecker.getErrorContent(message)

RECURSIVE Pushed(_, _)
\* the documents after the pushes of each section, in the order of the sections
Pushed(doc, sections) ==
    IF sections = <<>> THEN doc
    ELSE Pushed(Doc(doc.content \o Head(sections).content,
                    doc.summary \o Head(sections).summary), Tail(sections))

ErrorContent(message) ==
    <<"", "  ## DataCap and CID Checker Report[^1]", "  " \o message, "",
      "  [^1]: To manually trigger this report, add a comment with text 'checker:manualTrigger'",
      "  ">>

NoClientAddress == "No client address found for this issue."

NoApplicationInfo ==
    "No application info found for this issue on https://datacapstats.io/clients."

NoPreviousAllocation == "There is no previous allocation for this issue."

NoClientId == "No client ID found for this issue."

NoActiveDeals == "No active deals found for this client."

\* the location cell of providerDistributionRows
RowLocation(distribution) ==
    LET parts == SelectSeq(<<distribution.city, distribution.region, distribution.country>>,
                           LAMBDA x : x # Undef /\ x # "")
        location == IF parts = <<>> THEN "Unknown" ELSE Join(parts, ", ")
        orgName == IF distribution.orgName = Undef THEN "Unknown" ELSE distribution.orgName
    IN  location \o "<br/>" \o WrapInCode(orgName)

RowLocations(distributions) == {RowLocation(distributions[i]) : i \in DOMAIN distributions}

\* linkifyAddress(address)
LinkifyAddress(a) == "[" \o a \o "](https://filfox.info/en/address/" \o a \o ")"

\* linkifyApplicationInfo(applicationInfo)
LinkifyApplicationInfo(info) ==
    IF info = <<>> THEN "Unknown"
    ELSE IF info[1].url # Undef
    THEN "[" \o info[1].organizationName \o "](" \o info[1].url \o ")"
    ELSE WrapInCode(info[1].organizationName)

\* renderApprovers(await getApprovers(issueNumber, repository)); the comments of
\* the ticket system are not modelled
RenderApprovers(issueNumber) == "<approvers of #" \o issueNumber \o ">"

\* generateGfmTable(rows, ...): one element of content; its text is not modelled
GfmTable(name, rows) == "<table " \o name \o " of " \o ToString(Len(rows)) \o " rows>"

\* lines 705-715
Header(info, clientId, issueNumber, time) ==
    LET d0 == Doc(<<>>, <<>>)
        d1 == PushContent(d0, "## DataCap and CID Checker Report[^1] (" \o time \o ")")
        d2 == PushSummary(d1, "## DataCap and CID Checker Report Summary[^1]")
    IN  PushAllContent(d2, <<
            " - Allocator: " \o WrapInCode(info.verifier),
            " - Organization: " \o WrapInCode(info.organizationName),
            " - Client: " \o WrapInCode(info.clientAddress),
            " - Client ID: " \o WrapInCode(clientId),
            " - Github Issue: [#" \o (IF info.issueNumber = Undef THEN "N/A" ELSE info.issueNumber)
                \o "](" \o info.url \o ")",
            "### Approvers",
            RenderApprovers(issueNumber),
            "">>)

\* lines 720-722
OtherAddressLines(doc, other, otherApplication) ==
    PushAllBoth(doc, <<" - " \o LinkifyAddress(other) \o " - "
                            \o LinkifyApplicationInfo(otherApplication), "">>)

Relaxed(allocations) ==
    "**Since this is the " \o Ordinal(allocations + 1)
        \o " allocation, the following restrictions have been relaxed:**"

\* lines 726-741
ProviderIntro(doc, crit, isEarlyAllocation, allocations) ==
    LET d1 == PushBoth(PushContent(doc, ""), "### Storage Provider Distribution")
        d2 == PushAllContent(d1, <<
                "The below table shows the distribution of storage providers that have stored data for this client.",
                "",
                "If this is the first time a provider takes verified deal, it will be marked as 'new'.",
                "",
                "For most of the datacap application, below restrictions should apply.">>)
        d3 == IF isEarlyAllocation THEN PushAllContent(d2, <<"", Relaxed(allocations)>>) ELSE d2
    IN  PushAllContent(d3, <<
            " - Storage provider should not exceed "
                \o ToFixed0(crit.maxProviderDealPercentage) \o "% of total datacap.",
            " - Storage provider should not be storing duplicate data for more than "
                \o ToFixed0(crit.maxDuplicationPercentage) \o "%.",
            " - Storage provider should have published its public IP address.",
            " - All storage providers should be located in different regions.",
            "">>)

ExceedsMaxPercentage(p, crit) == FGT(p.percentage, crit.maxProviderDealPercentage)

ExceedsMaxDuplication(p, crit) == FGT(p.duplication_percentage, crit.maxDuplicationPercentage)

NoIp(p) == p.country = Undef \/ p.country = ""

\* the body of the loop of lines 746-772 for one provider
ProviderWarnings(p, crit) ==
    (IF ExceedsMaxPercentage(p, crit)
       THEN <<Warning \o " " \o ProviderLink(p.provider) \o " has sealed "
                \o ToFixed2(p.percentage) \o "% of total datacap.", "">>
       ELSE <<>>)
    \o (IF ExceedsMaxDuplication(p, crit)
          THEN <<Warning \o " " \o ToFixed2(p.duplication_percentage)
                   \o "% of total deal sealed by " \o ProviderLink(p.provider)
                   \o " are duplicate data.", "">>
          ELSE <<>>)
    \o (IF NoIp(p)
          THEN <<Warning \o " " \o ProviderLink(p.provider) \o " has unknown IP location.", "">>
          ELSE <<>>)

RECURSIVE ProviderLoop(_, _, _)
ProviderLoop(doc, providers, crit) ==
    IF providers = <<>> THEN doc
    ELSE ProviderLoop(PushAllContent(doc, ProviderWarnings(Head(providers), crit)),
                      Tail(providers), crit)

\* one entry of the lists joined in the summary lines 774-785
Entry(p, value) == " " \o ProviderLink(p.provider) \o ": " \o ToFixed2(value) \o "%"

\* lines 773-787: the summary's own lines for the findings of the loop
ProviderSummary(doc, providers, crit) ==
    LET over == SelectSeq(providers, LAMBDA p : ExceedsMaxPercentage(p, crit))
        dup == SelectSeq(providers, LAMBDA p : ExceedsMaxDuplication(p, crit))
        noIp == SelectSeq(providers, LAMBDA p : NoIp(p))
        d1 == IF over = <<>> THEN doc
              ELSE PushSummary(PushSummary(doc,
                     Warning \o " " \o ToString(Len(over))
                       \o " storage providers sealed more than "
                       \o ToFixed0(crit.maxProviderDealPercentage) \o "% of total datacap - "
                       \o Join([i \in DOMAIN over |-> Entry(over[i], over[i].percentage)], ", ")),
                     "")
        d2 == IF dup = <<>> THEN d1
              ELSE PushSummary(PushSummary(d1,
                     Warning \o " " \o ToString(Len(dup))
                       \o " storage providers sealed too much duplicate data - "
                       \o Join([i \in DOMAIN dup |->
                                  Entry(dup[i], dup[i].duplication_percentage)], ", ")),
                     "")
    IN  IF noIp = <<>> THEN d2
        ELSE PushSummary(PushSummary(d2,
               Warning \o " " \o ToString(Len(noIp))
                 \o " storage providers have unknown IP location - "
                 \o Join([i \in DOMAIN noIp |-> " " \o ProviderLink(noIp[i].provider)], ", ")),
               "")

SameRegion == Warning \o " All storage providers are located in the same region."

ProviderHealthy == HeavyCheckMark \o " Storage provider distribution looks healthy."

\* new Set(providerDistributionRows.map(row => row.location)).size <= 1
SingleRegion(providers) == Cardinality(RowLocations(providers)) <= 1

\* providerDistributionHealthy after line 793
ProviderDistributionHealthy(providers, crit) ==
    /\ \A i \in DOMAIN providers : ProviderWarnings(providers[i], crit) = <<>>
    /\ ~SingleRegion(providers)

\* lines 788-798
RegionAndHealth(doc, providers, crit) ==
    LET d1 == IF SingleRegion(providers) THEN PushAllBoth(doc, <<SameRegion, "">>) ELSE doc
    IN  IF ProviderDistributionHealthy(providers, crit)
        THEN PushAllBoth(d1, <<ProviderHealthy, "">>) ELSE d1

\* (count / length) * 100, then toFixed(2)
Share(count, length) == ToFixed2(Frac(count, length))

ZeroRetrieval(r) == SelectSeq(r, LAMBDA item : FIsZero(item.success_rate))

ThreeQuart(r) == SelectSeq(r, LAMBDA item : FLT(item.success_rate, Frac(3, 4)))

RetrievalZeroLine(r) ==
    Warning \o " " \o Share(Len(ZeroRetrieval(r)), Len(r))
      \o "% of Storage Providers have retrieval success rate equal to zero."

RetrievalLowLine(r) ==
    Warning \o " " \o Share(Len(ThreeQuart(r)), Len(r))
      \o "% of Storage Providers have retrieval success rate less than 75%."

RetrievalAverageLine(avg) ==
    Warning \o " The average retrieval success rate is " \o ToFixed2(avg) \o "%"

\* lines 800-820
RetrievabilityFindings(doc, r, avg, threshold) ==
    LET d1 == IF Len(ZeroRetrieval(r)) > 0
              THEN PushAllBoth(doc, <<RetrievalZeroLine(r), "">>) ELSE doc
        d2 == IF Len(r) > 0 /\ Len(ThreeQuart(r)) > 0
              THEN PushAllBoth(d1, <<RetrievalLowLine(r), "">>) ELSE d1
    IN  IF Len(r) > 0 /\ FLT(avg, threshold)
        THEN PushAllBoth(d2, <<RetrievalAverageLine(avg), "">>) ELSE d2

\* lines 822-835
ProviderTable(doc, providers, imageUrl) ==
    LET d1 == PushBoth(PushContent(doc, GfmTable("providers", providers)), "")
    IN  PushAllContent(d1, <<"<img src=" \o imageUrl \o "/>", "">>)

\* the sum over the distributions of fewer replicas than the threshold
LowReplicaPercentageBelow(replicas, crit) ==
    LET low == SelectSeq(replicas, LAMBDA d : d.num_of_replicas < crit.lowReplicaThreshold)
    IN  FSum([i \in DOMAIN low |-> low[i].percentage])

\* lines 848-851
LowReplicaPercentage(replicas, crit) ==
    LET low == SelectSeq(replicas, LAMBDA d : d.num_of_replicas <= crit.lowReplicaThreshold)
    IN  FSum([i \in DOMAIN low |-> low[i].percentage])

LowReplicaLine(replicas, crit) ==
    Warning \o " " \o ToFixed2(LowReplicaPercentage(replicas, crit))
      \o "% of deals are for data replicated across less than "
      \o ToString(crit.lowReplicaThreshold + 1) \o " storage providers."

ReplicationHealthy == HeavyCheckMark \o " Data replication looks healthy."

\* lines 837-869
Replication(doc, replicas, crit, isEarlyAllocation, allocations, imageUrl) ==
    LET d1 == PushBoth(doc, "### Deal Data Replication")
        d2 == PushAllContent(d1, <<
                "The below table shows how each many unique data are replicated across storage providers.",
                "">>)
        d3 == IF FLT(crit.maxPercentageForLowReplica, Frac(1, 1))
              THEN PushContent(
                     IF isEarlyAllocation
                     THEN PushAllContent(d2, <<"", Relaxed(allocations)>>) ELSE d2,
                     "- No more than " \o ToFixed0(crit.maxPercentageForLowReplica)
                       \o "% of unique data are stored with less than "
                       \o ToString(crit.lowReplicaThreshold + 1) \o " providers.")
              ELSE d2
        d4 == PushContent(d3, "")
        d5 == IF FGT(LowReplicaPercentage(replicas, crit), crit.maxPercentageForLowReplica)
              THEN PushAllBoth(d4, <<LowReplicaLine(replicas, crit), "">>)
              ELSE PushAllBoth(d4, <<ReplicationHealthy, "">>)
        d6 == PushAllContent(d5, <<GfmTable("replicas", replicas), "",
                                   "<img src=" \o imageUrl \o "/>">>)
    IN  PushBoth(d6, "")

\* xbytes(parseFloat(size), { iec: true }); the unit arithmetic is not modelled
Xbytes(size) == ToString(size) \o " B"

\* a row of cidSharingRows
CidSharingRow(share, otherApplication) ==
    [otherClientAddress |-> LinkifyAddress(share.other_client),
     totalDealSize |-> Xbytes(share.total_deal_size),
     otherClientOrganizationName |-> LinkifyApplicationInfo(otherApplication),
     verifier |-> IF otherApplication = <<>> \/ otherApplication[1].issueNumber = Undef
                  THEN "Unknown" ELSE RenderApprovers(otherApplication[1].issueNumber)]

TopRow(row) ==
    "- " \o row.totalDealSize \o " - " \o row.otherClientAddress
         \o " - " \o row.otherClientOrganizationName

\* lines 870-895
Sharing(doc, rows) ==
    LET d1 == PushBoth(doc, "### Deal Data Shared with other Clients[^3]")
        d2 == PushAllContent(d1, <<
                "The below table shows how many unique data are shared with other clients.",
                "Usually different applications owns different data and should not resolve to the same CID.",
                "",
                "However, this could be possible if all below clients use same software to prepare for the exact same dataset or they belong to a series of LDN applications for the same dataset.",
                "">>)
        top == SubSeq(rows, 1, Min(3, Len(rows)))
        RECURSIVE Tops(_, _)
        Tops(d, rs) == IF rs = <<>> THEN d ELSE Tops(PushSummary(d, TopRow(Head(rs))), Tail(rs))
    IN  IF Len(rows) > 0
        THEN Tops(
               PushContent(
                 PushBoth(
                   PushSummary(
                     PushContent(d2, Warning \o " CID sharing has been observed."),
                     Warning \o " CID sharing has been observed. (Top 3)"),
                   ""),
                 GfmTable("sharing", rows)),
               top)
        ELSE PushBoth(d2, HeavyCheckMark \o " No CID sharing has been observed.")

\* lines 897-903
Footnotes(doc) ==
    PushAllBoth(doc, <<
        "",
        "[^1]: To manually trigger this report, add a comment with text 'checker:manualTrigger'",
        "",
        "[^2]: Deals from those addresses are combined into this report as they are specified with 'checker:manualTrigger'",
        "",
        "[^3]: To manually trigger this report with deals from other related addresses, add a comment with text 'checker:manualTrigger <other_address_1> <other_address_2> ...'",
        "">>)

\* lines 726-903: everything between the loop over addressGroup and the upload
Body(doc, info, crit, isEarlyAllocation, providers, replicas, rows, r, avg, threshold, urls) ==
    LET allocations == info.numberOfAllocations
        none == Doc(<<>>, <<>>)
        sections ==
            <<ProviderIntro(none, crit, isEarlyAllocation, allocations),
              ProviderLoop(none, providers, crit),
              ProviderSummary(none, providers, crit),
              RegionAndHealth(none, providers, crit),
              RetrievabilityFindings(none, r, avg, threshold),
              ProviderTable(none, providers, urls[1]),
              Replication(none, replicas, crit, isEarlyAllocation, allocations, urls[2]),
              Sharing(none, rows),
              Footnotes(none)>>
    IN  Pushed(doc, sections)

FullReportHeading == "### Full report"

\* line 917
FullReportLink(url) == "Click [here](" \o url \o ") to view the CID Checker report."

----------------------------------------------------------------------------
(* check: the steps between its awaits *)

\* getClientAddress(issue), issue being what parseIssue finds in the body
GetClientAddress(issue) ==
    IF issue.prefix # "f" THEN Undef ELSE issue.prefix \o issue.rest

\* an early allocation as long as the allocations do not exceed the tiers
IsEarlyAllocationInclusive(criterias, allocations) == Len(criterias) >= allocations

\* criterias.length > allocations
IsEarlyAllocation(criterias, allocations) == Len(criterias) > allocations

\* the tier of the number of allocations taken as an index from 0
SelectCriteriaFromZero(criterias, allocations) ==
    IF Len(criterias) > allocations
    THEN criterias[allocations + 1]
    ELSE criterias[Len(criterias)]

\* line 604, with the sequence indexed from 1
SelectCriteria(criterias, allocations) ==
    IF Len(criterias) > allocations - 1
    THEN criterias[allocations]
    ELSE criterias[Len(criterias)]

\* lines 593-596
AddressGroup(otherAddresses, clientAddress) ==
    IF Contains(otherAddresses, clientAddress) THEN otherAddresses
    ELSE Append(otherAddresses, clientAddress)

IdOf(a) == "id:" \o a

RECURSIVE ClientAddressId(_, _)
\* getClientAddressId: the ids (in a sequence of length 1), or null when the
\* lookup of one address fails after its retries
ClientAddressId(addresses, fails) ==
    IF addresses = <<>> THEN <<(<<>>)>>
    ELSE IF ~RetrySucceeds(fails[Head(addresses)], RpcRetries) THEN <<>>
    ELSE LET rest == ClientAddressId(Tail(addresses), fails)
         IN  IF rest = <<>> THEN <<>> ELSE <<(<<IdOf(Head(addresses))>> \o rest[1])>>

\* uploadFile: the url of the file, or '' when the upload fails after its retries
UploadUrl(fails, path) ==
    IF RetrySucceeds(fails, GithubRetries) THEN "https://files/" \o path ELSE ""

\* ${repository.full_name}/issues/${issue.number}/${Date.now()}: the n-th file
\* of the check that runs at time
Path(issue, time, n) == "issues/" \o issue.number \o "/" \o ToString(time) \o ToString(n)


\* the call of findApplicationInfoForClient up to its await: the cached value,
\* or the k-th lookup of client issued
FindBegin(c, up, client) ==
    IF CacheHas(c, client)
    THEN [client |-> client, hit |-> TRUE, value |-> c[client], k |-> 0]
    ELSE [client |-> client, hit |-> FALSE, value |-> <<>>, k |-> up[client] + 1]

\* the rest of the call: what it returns or whether it throws
FindEnd(e, p, fails) ==
    IF p.hit THEN [threw |-> FALSE, value |-> p.value]
    ELSE LookupOutcome(p.client, fails, RegistryResponse(e, p.client, p.k))

\* a cache that stores not-found for a lookup that failed
CacheAfterFailureStored(c, p, out) ==
    IF p.hit THEN c ELSE CacheSet(c, p.client, out.value)

\* the cache after the call returned
CacheAfter(c, p, out) ==
    IF p.hit \/ out.threw THEN c ELSE CacheSet(c, p.client, out.value)

Issued(up, p) == IF p.hit THEN up ELSE [up EXCEPT ![p.client] = @ + 1]

\* history, per address: the value its first completed call returned, the value
\* its latest completed call returned, the number of completed calls, the
\* number of lookups issued for the address when the first call completed,
\* whether a call that had missed the cache completed after another had
\* written the entry, and what the latest call served from the cache returned
Found(f, up, p, out) ==
    IF out.threw THEN f
    ELSE [a \in DOMAIN f \cup {p.client} |->
            IF a # p.client THEN f[a]
            ELSE IF a \in DOMAIN f
            THEN [f[a] EXCEPT !.value = out.value, !.returns = Min(@ + 1, MaxReturns),
                              !.overlapped = @ \/ ~p.hit,
                              !.served = IF p.hit THEN <<out.value>> ELSE @]
            ELSE [first |-> out.value, value |-> out.value, returns |-> 1,
                  calls |-> up[a], overlapped |-> FALSE, served |-> <<>>]]

NoPending == [client |-> "", hit |-> FALSE, value |-> <<>>, k |-> 0]

NotReturned == [kind |-> "none", summary |-> <<>>, content |-> <<>>, by |-> ""]

NoRead == [kind |-> "none", address |-> "", rows |-> <<>>, file_path |-> Undef]

\* what a read returns: the rows, the file path, the error pair, or a rejection
Read(kind, a, rows, path) == [kind |-> kind, address |-> a, rows |-> rows, file_path |-> path]

\* return [getErrorContent(message), undefined]
\* an error document with a full document next to it
ErrorDocumentWithContent(message) ==
    [kind |-> "error", summary |-> ErrorContent(message),
     content |-> <<ErrorContent(message)>>, by |-> message]

\* return [CidChecker.getErrorContent(message), undefined]; the full document
\* is a sequence of length 0 when undefined and of length 1 otherwise
ErrorDocument(message) ==
    [kind |-> "error", summary |-> ErrorContent(message), content |-> <<>>, by |-> message]

\* the promise of check rejects
Thrown(by) == [kind |-> "threw", summary |-> <<>>, content |-> <<>>, by |-> by]

\* return [summary.join('\n'), joinedContent]
Report(s, c) == [kind |-> "report", summary |-> s, content |-> <<c>>, by |-> ""]

CallKinds == {"registry", "lookupId", "providerQuery", "firstClientQuery", "minerInfo",
              "geo", "replicaQuery", "cidQuery", "spark", "comments", "upload", "insert",
              "consoleError", "loggerError", "sparkAttempts", "insertAttempts"}

NoCalls == [k \in CallKinds |-> 0]

Called(c, kind, n) == [c EXCEPT ![kind] = @ + n]

BranchRunning == brA \in {"query", "firstClient", "location"} \/ brB = "query" \/ brC = "query"

RowRunning == \E i \in DOMAIN cidSharingRows : cidSharingRows[i].state = "lookup"

procVars == <<cache, upstreamCalls, finds, reports>>

branchVars == <<brA, brB, brC, result, firstClientByProvider, withLocations,
                providerDistributions, replicationDistributions, cidSharing>>

docVars == <<images, otherIdx, content, summary, contentUrl>>

\* check is called: lines 574-581
StartCheck ==
    /\ pc \in {"idle", "done"}
    /\ run < env.runs
    /\ ~BranchRunning /\ ~RowRunning
    /\ run' = run + 1
    /\ LET a == GetClientAddress(env.issue)
           p == FindBegin(cache, upstreamCalls, a)
       IN  /\ address' = a
           /\ IF a = Undef
              THEN /\ returned' = ErrorDocument(NoClientAddress)
                   /\ pc' = "done"
                   /\ pending' = NoPending
                   /\ calls' = NoCalls
                   /\ UNCHANGED upstreamCalls
              ELSE /\ returned' = NotReturned
                   /\ pc' = "awaitApplicationInfo"
                   /\ pending' = p
                   /\ calls' = Called(NoCalls, "registry", IF p.hit THEN 0 ELSE 1)
                   /\ upstreamCalls' = Issued(upstreamCalls, p)
    /\ applicationInfo' = <<>>
    /\ addressGroup' = <<>>
    /\ clientIds' = <<>>
    /\ criteria' = <<>>
    /\ brA' = "idle" /\ brB' = "idle" /\ brC' = "idle"
    /\ result' = <<>>
    /\ firstClientByProvider' = <<>>
    /\ withLocations' = <<>>
    /\ providerDistributions' = <<>>
    /\ replicationDistributions' = <<>>
    /\ cidSharing' = <<>>
    /\ retrievability' = <<>>
    /\ avgProviderScore' = Zero
    /\ cidSharingRows' = <<>>
    /\ images' = <<"", "">>
    /\ otherIdx' = 0
    /\ content' = <<>>
    /\ summary' = <<>>
    /\ contentUrl' = ""
    /\ UNCHANGED <<env, read, cache, finds, reports>>

\* lines 581-599: the application info arrives
ApplicationInfoResolved ==
    /\ pc = "awaitApplicationInfo"
    /\ \E fails \in Fails :
       LET out == FindEnd(env, pending, fails)
           group == AddressGroup(env.otherAddresses, out.value[1].clientAddress)
       IN  /\ cache' = CacheAfter(cache, pending, out)
           /\ finds' = Found(finds, upstreamCalls, pending, out)
           /\ applicationInfo' = out.value
           /\ pending' = NoPending
           /\ IF out.threw
              THEN /\ returned' = Thrown("findApplicationInfoForClient")
                   /\ pc' = "done"
                   /\ UNCHANGED <<addressGroup, calls>>
              ELSE IF out.value = <<>>
              THEN /\ returned' = ErrorDocument(NoApplicationInfo)
                   /\ pc' = "done"
                   /\ UNCHANGED <<addressGroup, calls>>
              ELSE IF out.value[1].numberOfAllocations = 0
              THEN /\ returned' = ErrorDocument(NoPreviousAllocation)
                   /\ pc' = "done"
                   /\ UNCHANGED <<addressGroup, calls>>
              ELSE /\ addressGroup' = group
                   /\ calls' = Called(calls, "lookupId", 1)
                   /\ pc' = "awaitClientIds"
                   /\ UNCHANGED returned
    /\ UNCHANGED <<env, read, run, upstreamCalls, reports, address, clientIds, criteria,
                   retrievability, avgProviderScore, cidSharingRows>>
    /\ UNCHANGED branchVars
    /\ UNCHANGED docVars

\* lines 599-626: the ids arrive, the tier is selected, the three fetches start
ClientIdsResolved ==
    /\ pc = "awaitClientIds"
    /\ \E fails \in [Range(addressGroup) -> Fails] :
       LET ids == ClientAddressId(addressGroup, fails)
       IN  IF ids = <<>>
           THEN /\ returned' = ErrorDocument(NoClientId)
                /\ pc' = "done"
                /\ UNCHANGED <<clientIds, criteria, brA, brB, brC, calls>>
           ELSE /\ clientIds' = ids[1]
                /\ criteria' = <<SelectCriteria(env.criterias,
                                                applicationInfo[1].numberOfAllocations)>>
                /\ brA' = "query" /\ brB' = "query" /\ brC' = "query"
                /\ calls' = Called(Called(Called(Called(calls,
                              "lookupId", Len(addressGroup) - 1),
                              "providerQuery", 1), "replicaQuery", 1), "cidQuery", 1)
                /\ pc' = "awaitAll"
                /\ UNCHANGED returned
    /\ UNCHANGED <<env, read, run, address, pending, applicationInfo, addressGroup,
                   result, firstClientByProvider, withLocations, providerDistributions,
                   replicationDistributions, cidSharing, retrievability,
                   avgProviderScore, cidSharingRows>>
    /\ UNCHANGED procVars
    /\ UNCHANGED docVars

\* a promise awaited by check rejects: check throws unless it has ended already
Rejects(at, by) ==
    IF pc = at
    THEN pc' = "done" /\ returned' = Thrown(by)
    ELSE UNCHANGED <<pc, returned>>

\* lines 610-614: the rows of the provider distribution arrive
ProviderQueryDone ==
    /\ brA = "query"
    /\ \E fails \in Fails :
       LET rows == env.providerRows
       IN  IF ~RetrySucceeds(fails, QueryRetries)
           THEN /\ brA' = "rejected"
                /\ Rejects("awaitAll", "getStorageProviderDistribution")
                /\ UNCHANGED <<result, providerDistributions, calls>>
           ELSE /\ result' = StorageProviderDistribution(rows)
                /\ UNCHANGED <<pc, returned>>
                /\ IF rows = <<>>
                   THEN /\ brA' = "done"
                        /\ providerDistributions' = <<>>
                        /\ UNCHANGED calls
                   ELSE /\ brA' = "firstClient"
                        /\ calls' = Called(calls, "firstClientQuery", 1)
                        /\ UNCHANGED providerDistributions
    /\ UNCHANGED <<env, read, run, address, pending, applicationInfo, addressGroup, clientIds,
                   criteria, brB, brC, firstClientByProvider, withLocations,
                   replicationDistributions, cidSharing, retrievability,
                   avgProviderScore, cidSharingRows>>
    /\ UNCHANGED procVars
    /\ UNCHANGED docVars

\* line 615: the first clients of the providers arrive
FirstClientDone ==
    /\ brA = "firstClient"
    /\ \E fails \in Fails :
       LET rows == env.firstClientRows
       IN  IF ~RetrySucceeds(fails, QueryRetries)
           THEN /\ brA' = "rejected"
                /\ Rejects("awaitAll", "getFirstClientByProviders")
                /\ UNCHANGED <<firstClientByProvider, calls>>
           ELSE /\ firstClientByProvider' = rows
                /\ brA' = "location"
                /\ calls' = Called(calls, "minerInfo", 1)
                /\ UNCHANGED <<pc, returned>>
    /\ UNCHANGED <<env, read, run, address, pending, applicationInfo, addressGroup, clientIds,
                   criteria, brB, brC, result, withLocations, providerDistributions,
                   replicationDistributions, cidSharing, retrievability,
                   avgProviderScore, cidSharingRows>>
    /\ UNCHANGED procVars
    /\ UNCHANGED docVars

\* lines 617-622: the location of the next provider arrives
LocationResolved ==
    /\ brA = "location"
    /\ LET item == result[Len(withLocations) + 1]
           got == GetLocation(env.net[item.provider])
           isNew == IsNew(clientIds, firstClientByProvider, item.provider)
           now == Append(withLocations, WithLocation(item, got.location, isNew))
       IN  IF got.threw
           THEN /\ brA' = "rejected"
                /\ Rejects("awaitAll", "getLocation")
                /\ calls' = Called(calls, "geo", Len(got.asked))
                /\ UNCHANGED <<withLocations, providerDistributions>>
           ELSE /\ withLocations' = now
                /\ UNCHANGED <<pc, returned>>
                /\ IF Len(now) = Len(result)
                   THEN /\ brA' = "done"
                        /\ providerDistributions' = SortByOrgName(now)
                        /\ calls' = Called(calls, "geo", Len(got.asked))
                   ELSE /\ brA' = "location"
                        /\ calls' = Called(Called(calls, "geo", Len(got.asked)), "minerInfo", 1)
                        /\ UNCHANGED providerDistributions
    /\ UNCHANGED <<env, read, run, address, pending, applicationInfo, addressGroup, clientIds,
                   criteria, brB, brC, result, firstClientByProvider,
                   replicationDistributions, cidSharing, retrievability,
                   avgProviderScore, cidSharingRows>>
    /\ UNCHANGED procVars
    /\ UNCHANGED docVars

\* line 624: the rows of the replication distribution arrive
ReplicationQueryDone ==
    /\ brB = "query"
    /\ \E fails \in Fails :
       LET rows == env.replicaRows
       IN  IF ~RetrySucceeds(fails, QueryRetries)
           THEN /\ brB' = "rejected"
                /\ Rejects("awaitAll", "getReplicationDistribution")
                /\ UNCHANGED replicationDistributions
           ELSE /\ brB' = "done"
                /\ replicationDistributions' = ReplicationDistribution(rows)
                /\ UNCHANGED <<pc, returned>>
    /\ UNCHANGED <<env, read, run, address, pending, applicationInfo, addressGroup, clientIds,
                   criteria, brA, brC, result, firstClientByProvider, withLocations,
                   providerDistributions, cidSharing, retrievability,
                   avgProviderScore, cidSharingRows, calls>>
    /\ UNCHANGED procVars
    /\ UNCHANGED docVars

\* line 625: the rows of the CID sharing arrive
CidSharingQueryDone ==
    /\ brC = "query"
    /\ \E fails \in Fails :
       LET rows == env.cidRows
       IN  IF ~RetrySucceeds(fails, QueryRetries)
           THEN /\ brC' = "rejected"
                /\ Rejects("awaitAll", "getCidSharing")
                /\ UNCHANGED cidSharing
           ELSE /\ brC' = "done"
                /\ cidSharing' = rows
                /\ UNCHANGED <<pc, returned>>
    /\ UNCHANGED <<env, read, run, address, pending, applicationInfo, addressGroup, clientIds,
                   criteria, brA, brB, result, firstClientByProvider, withLocations,
                   providerDistributions, replicationDistributions, retrievability,
                   avgProviderScore, cidSharingRows, calls>>
    /\ UNCHANGED procVars
    /\ UNCHANGED docVars

\* lines 607-628: Promise.all resolves and providersRetrievability is called
AllSettled ==
    /\ pc = "awaitAll"
    /\ brA = "done" /\ brB = "done" /\ brC = "done"
    /\ pc' = "awaitRetrievability"
    /\ calls' = Called(calls, "spark", 1)
    /\ UNCHANGED <<env, read, run, address, pending, applicationInfo, addressGroup, clientIds,
                   criteria, retrievability, avgProviderScore, cidSharingRows, returned>>
    /\ UNCHANGED procVars
    /\ UNCHANGED branchVars
    /\ UNCHANGED docVars

BlankRow == [otherClientAddress |-> "", totalDealSize |-> "",
             otherClientOrganizationName |-> "", verifier |-> ""]

RECURSIVE BeginRows(_, _, _)
\* cidSharing.map(async share => ...): every callback runs up to its first await,
\* in the order of the rows; up counts the lookups issued
BeginRows(shares, c, up) ==
    IF shares = <<>> THEN [cells |-> <<>>, up |-> up]
    ELSE LET p == FindBegin(c, up, Head(shares).other_client)
             rest == BeginRows(Tail(shares), c, Issued(up, p))
         IN  [cells |-> <<[state |-> "lookup", share |-> Head(shares),
                           pending |-> p, row |-> BlankRow]>> \o rest.cells,
              up |-> rest.up]

Misses(cells) == Len(SelectSeq(cells, LAMBDA x : ~x.pending.hit))

\* lines 628-684: the retrieval statistics arrive
RetrievabilityDone ==
    /\ pc = "awaitRetrievability"
    /\ \E ok \in BOOLEAN :
       LET r == ProvidersRetrievability(providerDistributions,
                                        [ok |-> ok, data |-> env.sparkData])
           begun == BeginRows(cidSharing, cache, upstreamCalls)
       IN  /\ retrievability' = r.retrievability
           /\ avgProviderScore' = r.avgProviderScore
           /\ IF providerDistributions = <<>>
              THEN /\ returned' = ErrorDocument(NoActiveDeals)
                   /\ pc' = "done"
                   /\ calls' = Called(Called(calls, "sparkAttempts", 1),
                                      "consoleError", IF ok THEN 0 ELSE 1)
                   /\ UNCHANGED <<cidSharingRows, upstreamCalls>>
              ELSE /\ cidSharingRows' = begun.cells
                   /\ upstreamCalls' = begun.up
                   /\ calls' = Called(Called(Called(calls, "registry", Misses(begun.cells)),
                                             "sparkAttempts", 1),
                                      "consoleError", IF ok THEN 0 ELSE 1)
                   /\ pc' = "awaitCidRows"
                   /\ UNCHANGED returned
    /\ UNCHANGED <<env, read, run, cache, finds, reports, address, pending,
                   applicationInfo, addressGroup, clientIds, criteria>>
    /\ UNCHANGED branchVars
    /\ UNCHANGED docVars

\* lines 670-681: the application info of one sharing client arrives
CidRowResolved(i) ==
    /\ cidSharingRows[i].state = "lookup"
    /\ \E fails \in Fails, commentsFails \in Fails :
       LET cell == cidSharingRows[i]
           out == FindEnd(env, cell.pending, fails)
           asksApprovers == out.value # <<>> /\ out.value[1].issueNumber # Undef
           approversFail == asksApprovers /\ ~RetrySucceeds(commentsFails, GithubRetries)
       IN  /\ cache' = CacheAfter(cache, cell.pending, out)
           /\ finds' = Found(finds, upstreamCalls, cell.pending, out)
           /\ calls' = Called(calls, "comments", IF ~out.threw /\ asksApprovers THEN 1 ELSE 0)
           /\ IF out.threw \/ approversFail
              THEN /\ cidSharingRows' = [cidSharingRows EXCEPT ![i].state = "rejected"]
                   /\ Rejects("awaitCidRows",
                              IF out.threw THEN "findApplicationInfoForClient"
                              ELSE "getApprovers")
              ELSE /\ cidSharingRows' =
                        [cidSharingRows EXCEPT ![i].state = "done",
                                               ![i].row = CidSharingRow(cell.share, out.value)]
                   /\ UNCHANGED <<pc, returned>>
    /\ UNCHANGED <<env, read, run, upstreamCalls, reports, address, pending,
                   applicationInfo, addressGroup, clientIds, criteria, retrievability,
                   avgProviderScore>>
    /\ UNCHANGED branchVars
    /\ UNCHANGED docVars

RECURSIVE NextOther(_, _, _)
\* the next address of the loop of lines 718-724 that is not the client's, or 0
NextOther(group, client, from) ==
    IF from > Len(group) THEN 0
    ELSE IF group[from] # client THEN from
    ELSE NextOther(group, client, from + 1)

\* lines 726-905 on the documents so far
RenderBody(doc, urls) ==
    Body(doc, applicationInfo[1], criteria[1],
         IsEarlyAllocation(env.criterias, applicationInfo[1].numberOfAllocations),
         providerDistributions, replicationDistributions,
         [i \in DOMAIN cidSharingRows |-> cidSharingRows[i].row],
         retrievability, avgProviderScore, env.retrievabilityThreshold, urls)

\* lines 686-718: the images are uploaded and the documents are started
ImagesUploaded ==
    /\ pc = "awaitCidRows"
    /\ \A i \in DOMAIN cidSharingRows : cidSharingRows[i].state = "done"
    /\ \E uploadFails \in [1..2 -> Fails], idFails \in Fails, commentsFails \in Fails :
       LET info == applicationInfo[1]
           url1 == UploadUrl(uploadFails[1], Path(env.issue, run, 1))
           url2 == UploadUrl(uploadFails[2], Path(env.issue, run, 2))
           ids == ClientAddressId(<<info.clientAddress>>,
                                  [a \in {info.clientAddress} |-> idFails])
           clientId == IF ids = <<>> THEN "N/A" ELSE ids[1][1]
           header == Header(info, clientId, env.issue.number, ToString(run))
           started == IF Len(addressGroup) > 1
                      THEN PushBoth(header, "### Other Addresses[^2]") ELSE header
           other == IF Len(addressGroup) > 1
                    THEN NextOther(addressGroup, info.clientAddress, 1) ELSE 0
           p == FindBegin(cache, upstreamCalls, addressGroup[other])
           body == RenderBody(started, <<url1, url2>>)
       IN  /\ images' = <<url1, url2>>
           /\ IF ~RetrySucceeds(commentsFails, GithubRetries)
              THEN /\ returned' = Thrown("getApprovers")
                   /\ pc' = "done"
                   /\ calls' = Called(Called(Called(calls, "upload", 2), "lookupId", 1),
                                      "comments", 1)
                   /\ UNCHANGED <<pending, upstreamCalls, otherIdx, content, summary>>
              ELSE IF other # 0
              THEN /\ pending' = p
                   /\ upstreamCalls' = Issued(upstreamCalls, p)
                   /\ otherIdx' = other
                   /\ content' = started.content
                   /\ summary' = started.summary
                   /\ calls' = Called(Called(Called(Called(calls, "upload", 2), "lookupId", 1),
                                      "comments", 1), "registry", IF p.hit THEN 0 ELSE 1)
                   /\ pc' = "awaitOtherAddress"
                   /\ UNCHANGED returned
              ELSE /\ content' = body.content
                   /\ summary' = body.summary
                   /\ calls' = Called(Called(Called(calls, "upload", 3), "lookupId", 1),
                                      "comments", 1)
                   /\ pc' = "awaitUpload"
                   /\ UNCHANGED <<pending, upstreamCalls, otherIdx, returned>>
    /\ UNCHANGED <<env, read, run, cache, finds, reports, address, applicationInfo, addressGroup,
                   clientIds, criteria, retrievability, avgProviderScore, cidSharingRows,
                   contentUrl>>
    /\ UNCHANGED branchVars

\* lines 720-905: the application info of another address of the group arrives
OtherAddressResolved ==
    /\ pc = "awaitOtherAddress"
    /\ \E fails \in Fails :
       LET out == FindEnd(env, pending, fails)
           doc == OtherAddressLines(Doc(content, summary), addressGroup[otherIdx], out.value)
           other == NextOther(addressGroup, applicationInfo[1].clientAddress, otherIdx + 1)
           p == FindBegin(CacheAfter(cache, pending, out), upstreamCalls, addressGroup[other])
           body == RenderBody(doc, images)
       IN  /\ cache' = CacheAfter(cache, pending, out)
           /\ finds' = Found(finds, upstreamCalls, pending, out)
           /\ IF out.threw
              THEN /\ returned' = Thrown("findApplicationInfoForClient")
                   /\ pc' = "done"
                   /\ pending' = NoPending
                   /\ UNCHANGED <<upstreamCalls, otherIdx, content, summary, calls>>
              ELSE IF other # 0
              THEN /\ pending' = p
                   /\ upstreamCalls' = Issued(upstreamCalls, p)
                   /\ otherIdx' = other
                   /\ content' = doc.content
                   /\ summary' = doc.summary
                   /\ calls' = Called(calls, "registry", IF p.hit THEN 0 ELSE 1)
                   /\ UNCHANGED <<pc, returned>>
              ELSE /\ content' = body.content
                   /\ summary' = body.summary
                   /\ calls' = Called(calls, "upload", 1)
                   /\ pc' = "awaitUpload"
                   /\ pending' = NoPending
                   /\ UNCHANGED <<upstreamCalls, otherIdx, returned>>
    /\ UNCHANGED <<env, read, run, reports, address, applicationInfo, addressGroup,
                   clientIds, criteria, retrievability, avgProviderScore, cidSharingRows,
                   images, contentUrl>>
    /\ UNCHANGED branchVars

\* lines 904-911: the report is uploaded and the insert is issued
ReportUploaded ==
    /\ pc = "awaitUpload"
    /\ \E fails \in Fails : contentUrl' = UploadUrl(fails, Path(env.issue, run, 3))
    /\ calls' = Called(calls, "insert", 1)
    /\ pc' = "awaitInsert"
    /\ UNCHANGED <<env, read, run, cache, upstreamCalls, finds, reports, address, pending,
                   applicationInfo, addressGroup, clientIds, criteria, retrievability,
                   avgProviderScore, cidSharingRows, images, otherIdx, content, summary,
                   returned>>
    /\ UNCHANGED branchVars

\* an insert that is executed twice
InsertedTwice(rows, client, path) ==
    LET once == Append(rows, [client_address_id |-> client, file_path |-> path,
                              created_at |-> Len(rows) + 1])
    IN  Append(once, [client_address_id |-> client, file_path |-> path,
                      created_at |-> Len(once) + 1])

\* an insert whose two parameters are bound the other way round
InsertedSwapped(rows, client, path) ==
    Append(rows, [client_address_id |-> path, file_path |-> client,
                  created_at |-> Len(rows) + 1])

\* the row the insert of lines 908-911 adds; created_at is assigned by the database
Inserted(rows, client, path) ==
    Append(rows, [client_address_id |-> client, file_path |-> path,
                  created_at |-> Len(rows) + 1])

\* lines 907-918 once the insert has succeeded or failed
Finish(s, c, url) == Report(s \o <<FullReportHeading, FullReportLink(url)>>, c)

\* an insert without its try and catch
InsertOutcomeUncaught(ok) == [threw |-> ~ok, logged |-> FALSE]

\* lines 907-914: try { insert } catch { logger.error }
InsertOutcome(ok) == [threw |-> FALSE, logged |-> ~ok]

\* lines 907-918: the insert ends and check returns
InsertDone ==
    /\ pc = "awaitInsert"
    /\ \E ok \in BOOLEAN :
          /\ reports' = IF ok
                        THEN Inserted(reports, applicationInfo[1].clientAddress, contentUrl)
                        ELSE reports
          /\ calls' = Called(Called(calls, "insertAttempts", 1),
                             "loggerError", IF InsertOutcome(ok).logged THEN 1 ELSE 0)
          /\ IF InsertOutcome(ok).threw
             THEN /\ returned' = Thrown("insert")
                  /\ UNCHANGED summary
             ELSE /\ returned' = Finish(summary, content, contentUrl)
                  /\ summary' = summary \o <<FullReportHeading, FullReportLink(contentUrl)>>
    /\ pc' = "done"
    /\ UNCHANGED <<env, read, run, cache, upstreamCalls, finds, address, pending,
                   applicationInfo, addressGroup, clientIds, criteria, retrievability,
                   avgProviderScore, cidSharingRows, images, otherIdx, content,
                   contentUrl>>
    /\ UNCHANGED branchVars

\* the rows of a client, the latest created first:
\* where client_address_id = ($1) order by created_at desc
RECURSIVE OrderByCreatedAtDesc(_)
OrderByCreatedAtDesc(rows) ==
    IF rows = <<>> THEN <<>>
    ELSE LET i == CHOOSE j \in DOMAIN rows :
                    \A k \in DOMAIN rows : rows[k].created_at <= rows[j].created_at
         IN  <<rows[i]>> \o OrderByCreatedAtDesc(SubSeq(rows, 1, i - 1)
                                                  \o SubSeq(rows, i + 1, Len(rows)))

\* the rows of a client, the earliest created first
RECURSIVE OrderByCreatedAt(_)
OrderByCreatedAt(rows) ==
    IF rows = <<>> THEN <<>>
    ELSE LET i == CHOOSE j \in DOMAIN rows :
                    \A k \in DOMAIN rows : rows[k].created_at >= rows[j].created_at
         IN  <<rows[i]>> \o OrderByCreatedAt(SubSeq(rows, 1, i - 1)
                                              \o SubSeq(rows, i + 1, Len(rows)))

\* the history of a client read the earliest first
GeneratedReportsAscending(rows, client) ==
    OrderByCreatedAt(SelectSeq(rows, LAMBDA r : r.client_address_id = client))

\* line 86
AllGeneratedReportsQuery(rows, client) ==
    OrderByCreatedAtDesc(SelectSeq(rows, LAMBDA r : r.client_address_id = client))

\* line 85: ... limit 1
LatestGeneratedReportQuery(rows, client) ==
    LET all == AllGeneratedReportsQuery(rows, client)
    IN  IF all = <<>> THEN <<>> ELSE <<all[1]>>

\* the lookups a read may still issue for an address
MaxLookups == 3

\* lines 927-931: the query is issued once
AllAnswer(a, client, rows, fails) ==
    IF RetrySucceeds(fails, 0)
    THEN Read("all", a, AllGeneratedReportsQuery(rows, client), Undef)
    ELSE Read("threw", a, <<>>, Undef)

\* lines 940-946: rows[0]?.file_path
LatestAnswer(a, client, rows, fails) ==
    IF RetrySucceeds(fails, LatestReportRetries)
    THEN LET latest == LatestGeneratedReportQuery(rows, client)
         IN  Read("latest", a, <<>>, IF latest = <<>> THEN Undef ELSE latest[1].file_path)
    ELSE Read("threw", a, <<>>, Undef)

\* lines 922-925 and 935-938: the lookup of the application info by a read of
\* kind "all" or "latest", then its query, which fails queryFails times
ReadReports(a, kind, queryFails) ==
    /\ pc = "done"
    /\ ~BranchRunning /\ ~RowRunning
    /\ CacheHas(cache, a) \/ upstreamCalls[a] < MaxLookups
    /\ \E fails \in Fails :
       LET p == FindBegin(cache, upstreamCalls, a)
           out == FindEnd(env, p, fails)
       IN  /\ upstreamCalls' = Issued(upstreamCalls, p)
           /\ cache' = CacheAfter(cache, p, out)
           /\ finds' = Found(finds, Issued(upstreamCalls, p), p, out)
           /\ read' = IF out.threw
                      THEN Read("threw", a, <<>>, Undef)
                      ELSE IF out.value = <<>>
                      THEN Read("error", a, ErrorContent(NoApplicationInfo), Undef)
                      ELSE IF kind = "all"
                      THEN AllAnswer(a, out.value[1].clientAddress, reports, queryFails)
                      ELSE LatestAnswer(a, out.value[1].clientAddress, reports, queryFails)
    /\ UNCHANGED <<env, pc, run, reports, address, pending, applicationInfo, addressGroup,
                   clientIds, criteria, retrievability, avgProviderScore, cidSharingRows,
                   calls, returned>>
    /\ UNCHANGED branchVars
    /\ UNCHANGED docVars

\* lines 921-932
GetAllClientGeneratedReports ==
    \E a \in env.readers, fails \in Fails : ReadReports(a, "all", fails)

\* lines 934-947
GetLatestClientGeneratedReport ==
    \E a \in env.readers, fails \in Fails : ReadReports(a, "latest", fails)

----------------------------------------------------------------------------
(* The collaborators' answers *)

\* the default criterias of check (lines 562-569)
DefaultCriteria ==
    [maxProviderDealPercentage |-> Frac(25, 100),
     maxDuplicationPercentage |-> Frac(20, 100),
     maxPercentageForLowReplica |-> Frac(25, 100),
     lowReplicaThreshold |-> 3]

\* a tier relaxed for the second allocation
SecondCriteria ==
    [maxProviderDealPercentage |-> Frac(50, 100),
     maxDuplicationPercentage |-> Frac(50, 100),
     maxPercentageForLowReplica |-> Frac(50, 100),
     lowReplicaThreshold |-> 2]

\* a tier relaxed for the first allocation
FirstCriteria ==
    [maxProviderDealPercentage |-> Frac(1, 1),
     maxDuplicationPercentage |-> Frac(1, 1),
     maxPercentageForLowReplica |-> Frac(1, 1),
     lowReplicaThreshold |-> 1]

CriteriaLists ==
    {<<DefaultCriteria>>, <<SecondCriteria, DefaultCriteria>>,
     <<FirstCriteria, SecondCriteria, DefaultCriteria>>}

Client == "f1client"

Other == "f1other"

Shared == "f1shared"

Addresses == {Client, Other, Shared}

\* a record of the registry with n allowances
Record(name, initialAllowance, n) ==
    [name |-> name, orgName |-> Undef, initialAllowance |-> initialAllowance,
     verifierName |-> "notary",
     allowanceArray |->
        [i \in 1..n |-> [auditTrail |-> <<[dir |-> "https://github.com/o/r/issues",
                                           leaf |-> ToString(40 + i)]>>]]]

\* a row of provider_distribution as ProviderDistributionQuery returns it
ProviderRow(provider, total, unique) ==
    [provider |-> provider, total_deal_size |-> total, unique_data_size |-> unique,
     duplication_percentage |-> FDiv(total - unique, total)]

ReplicaRow(replicas, total, unique) ==
    [num_of_replicas |-> replicas, total_deal_size |-> total, unique_data_size |-> unique]

ShareRow(other, total) ==
    [other_client |-> other, total_deal_size |-> total, unique_cid_count |-> 1]

Ip4(ip) == [proto |-> "ip4", resolves |-> TRUE, ips |-> <<ip>>]

Dns4(ok, ip) == [proto |-> "dns4", resolves |-> ok, ips |-> <<ip>>]

Net(minerFails, multiaddrs) == [minerFails |-> minerFails, multiaddrs |-> multiaddrs]

Paris == Net(0, <<Ip4("1.1.1.1")>>)

ParisBeta == Net(1, <<Dns4(TRUE, "2.2.2.2")>>)

Tokyo == Net(0, <<Ip4("10.0.0.1"), Ip4("3.3.3.3"), Ip4("1.1.1.1")>>)

Providers == <<"f01", "f02", "f03", "f04">>

\* the network of the i-th provider is nets[i]
Nets(nets) ==
    [p \in Range(Providers) |->
        LET i == CHOOSE j \in DOMAIN Providers : Providers[j] = p
        IN  IF i <= Len(nets) THEN nets[i] ELSE Net(0, <<>>)]

Deals(rows, nets) == [rows |-> rows, net |-> Nets(nets)]

\* two providers over the limit, in two regions
Concentrated ==
    Deals(<<ProviderRow("f01", 2, 2), ProviderRow("f02", 2, 2)>>, <<Paris, Tokyo>>)

\* four providers within every limit
Spread ==
    Deals(<<ProviderRow("f01", 1, 1), ProviderRow("f02", 1, 1),
            ProviderRow("f03", 1, 1), ProviderRow("f04", 1, 1)>>,
          <<Tokyo, ParisBeta, Paris, Tokyo>>)

\* duplicate data, one city, one provider whose name does not resolve
Duplicated ==
    Deals(<<ProviderRow("f01", 4, 1), ProviderRow("f02", 1, 1),
            ProviderRow("f03", 1, 1), ProviderRow("f04", 1, 1)>>,
          <<Paris, Paris, Net(0, <<Dns4(FALSE, "1.1.1.1")>>),
            Net(0, <<Ip4("5.5.5.5")>>)>>)

\* one provider, in one region
Single == Deals(<<ProviderRow("f01", 3, 3)>>, <<ParisBeta>>)

\* rows whose deal sizes are all zero
ZeroTotals ==
    Deals(<<ProviderRow("f01", 0, 0), ProviderRow("f02", 0, 0)>>, <<Paris, Tokyo>>)

\* no deals
NoDeals == Deals(<<>>, <<>>)

\* the miner info of the second provider cannot be read
MinerInfoDown ==
    Deals(<<ProviderRow("f01", 2, 2), ProviderRow("f02", 2, 2)>>,
          <<Paris, Net(RpcRetries + 1, <<Ip4("3.3.3.3")>>)>>)

\* the geolocation of the second provider cannot be read
GeoDown ==
    Deals(<<ProviderRow("f01", 2, 2), ProviderRow("f02", 2, 2)>>,
          <<Paris, Net(0, <<Ip4("9.9.9.9")>>)>>)

DealCases ==
    {Concentrated, Spread, Duplicated, Single, ZeroTotals, NoDeals, MinerInfoDown, GeoDown}

Rate(miner, n, d) == [miner_id |-> miner, success_rate |-> Frac(n, d)]

SparkCases ==
    {<<>>,
     <<Rate("f01", 0, 1), Rate("f02", 1, 2), Rate("f09", 1, 1)>>,
     <<Rate("f01", 1, 1), Rate("f02", 9, 10), Rate("f03", 1, 1), Rate("f04", 1, 1)>>,
     <<Rate("f01", 1, 10), Rate("f02", 8, 10)>>}

ReplicaCases ==
    {<<ReplicaRow(1, 3, 3), ReplicaRow(5, 7, 7)>>,
     <<ReplicaRow(4, 8, 2), ReplicaRow(5, 5, 1)>>}

CidCases ==
    {<<>>,
     <<ShareRow(Shared, 1)>>,
     <<ShareRow(Other, 4), ShareRow(Shared, 2)>>}

OtherAddressCases == {<<>>, <<Other>>}

Found1 == <<(<<Record("Acme", 5, 3)>>)>>

\* what the registry answers for each address, lookup after lookup
Registry(client) ==
    [a \in Addresses |->
        IF a = Client THEN client
        ELSE IF a = Other THEN <<(<<Record("Other", 5, 0)>>)>>
        ELSE <<(<<>>)>>]

Issue(prefix) == [prefix |-> prefix, rest |-> "1client", number |-> "7"]

Env(issue, criterias, others, registry, deals, replicas, cids, sparkData, runs) ==
    [issue |-> issue,
     criterias |-> criterias,
     otherAddresses |-> others,
     retrievabilityThreshold |-> Frac(1, 2),
     registry |-> registry,
     providerRows |-> deals.rows,
     firstClientRows |-> <<[provider |-> "f01", first_client |-> IdOf(Client)]>>,
     net |-> deals.net,
     replicaRows |-> replicas,
     cidRows |-> cids,
     sparkData |-> sparkData,
     stored |-> <<>>,
     readers |-> {},
     runs |-> runs]

\* the environments of the findings: every combination of deals, statistics,
\* replication, sharing and other addresses for a client with three allocations
Envs ==
    {Env(Issue("f"), <<DefaultCriteria>>, others, Registry(Found1), deals, replicas,
         cids, sparkData, 1) :
       others \in OtherAddressCases, deals \in DealCases, replicas \in ReplicaCases,
       cids \in CidCases, sparkData \in SparkCases}
    \cup
    {Env(Issue(prefix), <<DefaultCriteria>>, <<>>, Registry(client), Concentrated,
         <<ReplicaRow(1, 3, 3)>>, <<>>, <<>>, 1) :
       prefix \in {"f", "x"},
       client \in {<<(<<>>)>>, <<(<<Record("Acme", 5, 0)>>)>>}}

MaxAllocations == 4

\* the environments of the tiers: every list of criterias against every number
\* of allocations
TierEnvs ==
    {Env(Issue("f"), criterias, <<>>, Registry(<<(<<Record("Acme", 5, n)>>)>>), deals,
         <<ReplicaRow(1, 3, 3), ReplicaRow(2, 3, 3), ReplicaRow(5, 4, 4)>>, <<>>, <<>>, 1) :
       criterias \in CriteriaLists, n \in 1..MaxAllocations,
       deals \in {Concentrated, Duplicated}}

MaxRuns == 2

\* a registry whose answers change from one lookup to the next
Changing ==
    [a \in Addresses |->
        IF a = Client
        THEN <<(<<Record("Acme", 5, 1)>>), (<<Record("Acme Corp", 5, 2)>>)>>
        ELSE IF a = Other THEN <<(<<Record("Other", 5, 0)>>), (<<>>)>>
        ELSE <<(<<>>), (<<Record("Shared", 1, 1)>>)>>]

\* the environments of the cache: checks that follow one another in one process
CacheEnvs ==
    {Env(Issue("f"), <<DefaultCriteria>>, others, Changing, deals,
         <<ReplicaRow(1, 3, 3)>>, cids, <<>>, MaxRuns) :
       others \in {<<Other>>, <<Shared, Other>>},
       cids \in {<<>>, <<ShareRow(Other, 4), ShareRow(Shared, 2)>>},
       deals \in {Single}}

\* a registry that knows the client by several records: two share the largest
\* initial allowance, or the largest stands between smaller ones
Several ==
    {<<(<<Record("Early", 5, 1), Record("Small", 3, 1), Record("Late", 5, 2)>>)>>,
     <<(<<Record("Small", 3, 1), Record("Large", 7, 2), Record("Middle", 5, 1)>>)>>}

\* the environments of the records: a client the registry knows more than once
RecordEnvs ==
    {Env(Issue("f"), <<DefaultCriteria>>, <<>>, Registry(client), Concentrated,
         <<ReplicaRow(1, 3, 3)>>, <<>>, <<>>, 1) :
       client \in Several}

\* two providers of one city, region and country, known by two organisations
SameCity ==
    Deals(<<ProviderRow("f01", 1, 1), ProviderRow("f02", 1, 1)>>, <<Paris, ParisBeta>>)

\* two providers of one city, region and country, and of one organisation
SameNet ==
    Deals(<<ProviderRow("f01", 1, 1), ProviderRow("f02", 1, 1)>>, <<Paris, Paris>>)

\* the environments of the regions: providers that share their location
RegionEnvs ==
    {Env(Issue("f"), <<DefaultCriteria>>, <<>>, Registry(Found1), deals,
         <<ReplicaRow(4, 8, 2), ReplicaRow(5, 5, 1)>>, <<>>, <<>>, 1) :
       deals \in {SameCity, SameNet}}

\* the environments of the average: statistics whose weighted average meets a
\* threshold, or differs from their mean, against the default threshold and
\* a higher one
ScoreEnvs ==
    {[Env(Issue("f"), <<DefaultCriteria>>, <<>>, Registry(Found1), deals,
          <<ReplicaRow(4, 8, 2), ReplicaRow(5, 5, 1)>>, <<>>, sparkData, 1)
        EXCEPT !.retrievabilityThreshold = threshold] :
       deals \in {Concentrated, Duplicated},
       sparkData \in {<<Rate("f01", 0, 1), Rate("f02", 1, 1)>>,
                      <<Rate("f01", 1, 10), Rate("f02", 8, 10)>>},
       threshold \in {Frac(2, 10), Frac(1, 2)}}

\* the environments of the reads: the generated reports of the client are read
\* between and after two checks, from a table that holds a report of another
\* address
ReadEnvs ==
    {[Env(Issue("f"), <<DefaultCriteria>>, <<>>, Registry(client), Single,
          <<ReplicaRow(1, 3, 3)>>, <<>>, <<>>, 2)
        EXCEPT !.stored = Inserted(<<>>, Other, "https://files/issues/9/13"),
               !.readers = {Client}] :
       client \in {Found1, <<(<<>>)>>}}

\* the environments of the race: two rows of the sharing name one client, so
\* that two lookups of its address are in flight together, while the registry
\* changes its answer from one lookup to the next; the reports of that client
\* are read afterwards
RaceEnvs ==
    {[Env(Issue("f"), <<DefaultCriteria>>, others, Changing, Single,
          <<ReplicaRow(1, 3, 3)>>, <<ShareRow(Shared, 4), ShareRow(Shared, 2)>>, <<>>, 1)
        EXCEPT !.readers = {Shared}] :
       others \in {<<>>, <<Shared>>}}

Init0(e) ==
    /\ env = e
    /\ pc = "idle"
    /\ run = 0
    /\ cache = [a \in {} |-> <<>>]
    /\ upstreamCalls = [a \in Addresses |-> 0]
    /\ finds = [a \in {} |-> <<>>]
    /\ reports = e.stored
    /\ address = Undef
    /\ pending = NoPending
    /\ applicationInfo = <<>>
    /\ addressGroup = <<>>
    /\ clientIds = <<>>
    /\ criteria = <<>>
    /\ brA = "idle" /\ brB = "idle" /\ brC = "idle"
    /\ result = <<>>
    /\ firstClientByProvider = <<>>
    /\ withLocations = <<>>
    /\ providerDistributions = <<>>
    /\ replicationDistributions = <<>>
    /\ cidSharing = <<>>
    /\ retrievability = <<>>
    /\ avgProviderScore = Zero
    /\ cidSharingRows = <<>>
    /\ images = <<"", "">>
    /\ otherIdx = 0
    /\ content = <<>>
    /\ summary = <<>>
    /\ contentUrl = ""
    /\ calls = NoCalls
    /\ returned = NotReturned
    /\ read = NoRead

Init ==
    \E e \in Envs \cup TierEnvs \cup CacheEnvs \cup RecordEnvs \cup RegionEnvs
             \cup ScoreEnvs \cup ReadEnvs \cup RaceEnvs : Init0(e)

Next ==
    \/ StartCheck
    \/ ApplicationInfoResolved
    \/ ClientIdsResolved
    \/ ProviderQueryDone
    \/ FirstClientDone
    \/ LocationResolved
    \/ ReplicationQueryDone
    \/ CidSharingQueryDone
    \/ AllSettled
    \/ RetrievabilityDone
    \/ \E i \in DOMAIN cidSharingRows : CidRowResolved(i)
    \/ ImagesUploaded
    \/ OtherAddressResolved
    \/ ReportUploaded
    \/ InsertDone
    \/ GetAllClientGeneratedReports
    \/ GetLatestClientGeneratedReport

Spec == Init /\ [][Next]_vars

----------------------------------------------------------------------------
(* Properties *)

Lines(doc) == Range(doc)

\* the lines check pushes to the summary alone: its title, the aggregated
\* provider warnings, the top of the sharing table, the link to the full report
SummaryOnly ==
    {"## DataCap and CID Checker Report Summary[^1]",
     Warning \o " CID sharing has been observed. (Top 3)",
     FullReportHeading, FullReportLink(contentUrl)}
    \cup Lines(ProviderSummary(Doc(<<>>, <<>>), providerDistributions, criteria[1]).summary)
    \cup {TopRow(cidSharingRows[i].row) : i \in DOMAIN cidSharingRows}

\* C1 (as stated): in every returned report, every line of the summary is a
\* line of the full document
C1_SummaryWithinFull ==
    returned.kind = "report" =>
        \A i \in DOMAIN returned.summary : returned.summary[i] \in Lines(returned.content[1])

\* C1 (amended): in every returned report, every line of the summary is a line
\* of the full document, except the lines pushed to the summary alone: its
\* title, the aggregated provider warnings, the top-3 sharing rows and their
\* heading, and the link to the full report
C1_SharedLinesWithinFull ==
    returned.kind = "report" =>
        \A i \in DOMAIN returned.summary :
            returned.summary[i] \in Lines(returned.content[1]) \cup SummaryOnly

\* a report with other addresses, retrieval warnings, a low-replica warning and
\* shared CIDs has been returned
C1_Witness ==
    /\ returned.kind = "report"
    /\ Len(addressGroup) > 1
    /\ cidSharingRows # <<>>
    /\ RetrievalZeroLine(retrievability) \in Lines(returned.summary)
    /\ \E i \in DOMAIN returned.summary :
          /\ returned.summary[i] \in SummaryOnly
          /\ returned.summary[i] \notin Lines(returned.content[1])

\* C2 (as stated): check never throws, whatever fails
C2_NeverThrows == returned.kind # "threw"

\* C3 (as stated): a distribution fetch that exhausts its retries does not abort
\* the run
C3_FetchFailureIsLocal ==
    returned.kind = "threw" =>
        returned.by \notin {"getStorageProviderDistribution",
                            "getReplicationDistribution", "getCidSharing"}

\* C4: the tier check evaluates against is the one at the 0-based index
\* min(criterias.length, numberOfAllocations) - 1, the
\* min(criterias.length, numberOfAllocations)-th of the list
C4_TierIndex ==
    criteria # <<>> =>
        criteria[1] = env.criterias[Min(Len(env.criterias),
                                        applicationInfo[1].numberOfAllocations)]

\* three tiers and two allocations select the second tier, and one tier with
\* four allocations selects that tier
C4_Witness ==
    /\ criteria # <<>>
    /\ \/ /\ Len(env.criterias) = 3
          /\ applicationInfo[1].numberOfAllocations = 2
          /\ criteria[1] = SecondCriteria
       \/ /\ Len(env.criterias) = 1
          /\ applicationInfo[1].numberOfAllocations = 4
          /\ criteria[1] = DefaultCriteria


C6_InsertFailureIsSwallowed ==
    [][pc = "awaitInsert" => returned' = Finish(summary, content, contentUrl)]_vars

\* a report has been returned although its insert failed and was logged
C6_Witness ==
    /\ pc = "done"
    /\ returned.kind = "report"
    /\ calls["loggerError"] = 1
    /\ reports = <<>>

AllZero == [i \in DOMAIN Providers |-> Rate(Providers[i], 0, 1)]

\* the retrievability warnings the providers of the run can get
RetrievabilityWarnings ==
    UNION {LET r == ProvidersRetrievability(providerDistributions,
                                            [ok |-> TRUE, data |-> sparkData])
           IN  Lines(RetrievabilityFindings(Doc(<<>>, <<>>), r.retrievability,
                                            r.avgProviderScore,
                                            env.retrievabilityThreshold).content) \ {""} :
           sparkData \in SparkCases \cup {AllZero}}

\* C7: when the fetch of the retrieval statistics fails, the retrievability is
\* the empty list with average 0, the failure does not end the run, and a
\* returned report has none of the retrievability warnings
C7_RetrievabilityFailureDegrades ==
    calls["consoleError"] > 0 =>
        /\ retrievability = <<>>
        /\ avgProviderScore = Zero
        /\ returned.kind = "threw" => returned.by # "providersRetrievability"
        /\ returned.kind = "report" =>
              /\ Lines(returned.content[1]) \cap RetrievabilityWarnings = {}
              /\ Lines(returned.summary) \cap RetrievabilityWarnings = {}

\* a report has been returned after the fetch failed, for providers whose
\* statistics would have brought warnings
C7_Witness ==
    /\ calls["consoleError"] = 1
    /\ returned.kind = "report"
    /\ LET r == CreateRetrievability(providerDistributions, env.sparkData)
       IN  r # <<>> /\ Len(ZeroRetrieval(r)) > 0

FollowingCalls ==
    {"lookupId", "providerQuery", "firstClientQuery", "minerInfo", "geo",
     "replicaQuery", "cidQuery", "spark", "comments", "upload", "insert"}

\* C8: when the lookup of the issue's client address returns no record (it has
\* returned to the run, which has not thrown), check
\* ends with the 'No application info' error document and an undefined full
\* document, and has issued no id resolution, no fetch of a distribution and no
\* fetch of the retrieval statistics
C8_NotFoundEndsEarly ==
    (/\ pc \notin {"idle", "awaitApplicationInfo"}
     /\ returned.kind # "threw"
     /\ address \in DOMAIN finds
     /\ finds[address].value = <<>>) =>
        /\ pc = "done"
        /\ returned.kind = "error"
        /\ returned.summary = ErrorContent(NoApplicationInfo)
        /\ returned.content = <<>>
        /\ \A k \in FollowingCalls : calls[k] = 0

\* check has returned the 'No application info' document for an address the
\* registry does not know
C8_Witness ==
    /\ pc = "done"
    /\ address \in DOMAIN finds
    /\ finds[address].value = <<>>
    /\ returned.by = NoApplicationInfo
    /\ calls["registry"] = 1

\* C9 (as stated): a failure while resolving the location of one provider does
\* not abort the run
C9_LocationFailureIsLocal ==
    returned.kind = "threw" => returned.by # "getLocation"

\* C10 (as stated): provider rows whose total deal sizes sum to 0 give the empty
\* distribution and the 'No active deals' error document
C10_ZeroTotalIsNoActiveDeals ==
    (/\ env.providerRows # <<>>
     /\ TotalDealSize(env.providerRows) = 0
     /\ brA \notin {"idle", "query", "rejected"}) =>
        /\ result = <<>>
        /\ returned.kind \in {"report", "error"} => returned.by = NoActiveDeals


\* the first of the records of data that have the largest initial allowance
FirstOfLargest(data) ==
    LET largest == CHOOSE i \in DOMAIN data :
                      \A j \in DOMAIN data : data[j].initialAllowance <= data[i].initialAllowance
        first == CHOOSE i \in DOMAIN data :
                    /\ data[i].initialAllowance = data[largest].initialAllowance
                    /\ \A j \in 1..(i - 1) :
                          data[j].initialAllowance < data[largest].initialAllowance
    IN  data[first]

\* C11 (as stated): the application info is built from the record with the
\* largest initial allowance, and among records tied for the largest from the
\* first of them in the returned list
C11_FirstOfLargestIsUsed ==
    (run = 1 /\ applicationInfo # <<>>) =>
        LET used == FirstOfLargest(RegistryResponse(env, address, 1))
        IN  /\ applicationInfo[1].organizationName = OrEmpty(used.name) \o OrEmpty(used.orgName)
            /\ applicationInfo[1].numberOfAllocations = Len(used.allowanceArray)


\* the providers of the run all resolve to one {city, region, country}
SameTuple(distributions) ==
    \A i, j \in DOMAIN distributions :
        <<distributions[i].city, distributions[i].region, distributions[i].country>>
          = <<distributions[j].city, distributions[j].region, distributions[j].country>>

\* C12 (as stated): a returned report whose providers all resolve to the same
\* {city, region, country} carries the single-region warning in its full
\* document and in its summary, whatever the organisations of the providers
C12_SameTupleIsSingleRegion ==
    (returned.kind = "report" /\ SameTuple(providerDistributions)) =>
        /\ SameRegion \in Lines(returned.content[1])
        /\ SameRegion \in Lines(returned.summary)


\* rules 1-3 of the evaluation: a provider over the concentration limit, over
\* the duplication limit, or of unknown country
ProviderRuleFired(providers, crit) ==
    \E i \in DOMAIN providers :
        \/ ExceedsMaxPercentage(providers[i], crit)
        \/ ExceedsMaxDuplication(providers[i], crit)
        \/ NoIp(providers[i])

\* rule 5 of the evaluation: the low-replica overage
LowReplicaOverage(replicas, crit) ==
    FGT(LowReplicaPercentage(replicas, crit), crit.maxPercentageForLowReplica)

\* C13 (as stated): a returned report has the line 'Storage provider
\* distribution looks healthy' exactly when no provider is over the
\* concentration limit, over the duplication limit or of unknown location, the
\* providers are not in a single region, and there is no low-replica overage
C13_HealthyIffNoRuleOfFive ==
    returned.kind = "report" =>
        (ProviderHealthy \in Lines(returned.content[1])
           <=> /\ ~ProviderRuleFired(providerDistributions, criteria[1])
               /\ ~SingleRegion(providerDistributions)
               /\ ~LowReplicaOverage(replicationDistributions, criteria[1]))


RECURSIVE LowReplicaSize(_, _)
\* the deal size of the rows of at most threshold replicas
LowReplicaSize(rows, threshold) ==
    IF rows = <<>> THEN 0
    ELSE (IF Head(rows).num_of_replicas <= threshold THEN Head(rows).total_deal_size ELSE 0)
           + LowReplicaSize(Tail(rows), threshold)

\* every line that is a low-replica warning for the replication rows of the run
LowReplicaWarnings ==
    {Warning \o " " \o ToFixed2(Frac(n, TotalDealSize(env.replicaRows)))
       \o "% of deals are for data replicated across less than "
       \o ToString(threshold + 1) \o " storage providers." :
     n \in 0..TotalDealSize(env.replicaRows), threshold \in 0..5}

\* how many lines of doc are one of verdicts
ReplicationVerdicts(doc, verdicts) == Cardinality({i \in DOMAIN doc : doc[i] \in verdicts})

\* C14: a returned report has exactly one of the low-replica warning and the
\* line 'Data replication looks healthy', in its full document and in its
\* summary, and it is the warning exactly when the share of the deals with at
\* most lowReplicaThreshold replicas is strictly greater than
\* maxPercentageForLowReplica
C14_LowReplicaOrHealthy ==
    returned.kind = "report" =>
        LET low == LowReplicaSize(env.replicaRows, criteria[1].lowReplicaThreshold)
            total == TotalDealSize(env.replicaRows)
            max == criteria[1].maxPercentageForLowReplica
            over == low * max.d > max.n * total
            warnings == LowReplicaWarnings
        IN  \A doc \in {returned.content[1], returned.summary} :
                /\ ReplicationVerdicts(doc, warnings \cup {ReplicationHealthy}) = 1
                /\ (Lines(doc) \cap warnings # {}) <=> over
                /\ ReplicationHealthy \in Lines(doc) <=> ~over

\* a report has been returned with the warning for replicas {1: 0.3, 5: 0.7},
\* threshold 3 and maximum 0.25
C14_Witness ==
    /\ returned.kind = "report"
    /\ env.replicaRows = <<ReplicaRow(1, 3, 3), ReplicaRow(5, 7, 7)>>
    /\ criteria[1].lowReplicaThreshold = 3
    /\ criteria[1].maxPercentageForLowReplica = Frac(25, 100)
    /\ Warning \o " 30.00% of deals are for data replicated across less than 4 storage providers."
         \in Lines(returned.summary)
    /\ ReplicationHealthy \notin Lines(returned.summary)


\* line begins with prefix
StartsWith(line, prefix) ==
    Len(line) >= Len(prefix) /\ SubSeq(line, 1, Len(prefix)) = prefix

AveragePrefix == Warning \o " The average retrieval success rate is "

RECURSIVE WeightedSuccess(_)
\* the sum of success rate times deal size over the joined list, as a fraction
WeightedSuccess(joined) ==
    IF joined = <<>> THEN Frac(0, 1)
    ELSE LET rest == WeightedSuccess(Tail(joined))
             rate == Head(joined).success_rate
         IN  Frac(rest.n * rate.d + rate.n * Head(joined).total_deal_size * rest.d,
                  rest.d * rate.d)

\* the deal-size-weighted average success rate of the joined list: 0 for an
\* empty list and for a zero denominator
WeightedAverage(joined) ==
    LET success == WeightedSuccess(joined)
        size == TotalDealSize(joined)
    IN  IF joined = <<>> \/ size = 0 \/ success.n = 0 THEN Frac(0, 1)
        ELSE Frac(success.n, success.d * size)

\* C15: a returned report has the average-retrieval warning, in its full
\* document and in its summary, exactly when the list joined from the
\* providers and the statistics is not empty and its deal-size-weighted average
\* success rate is strictly below the threshold check was called with; the
\* warning then states that average, and the average is 0 for an empty join and
\* for a zero denominator
C15_AverageBelowThreshold ==
    returned.kind = "report" =>
        LET average == WeightedAverage(retrievability)
            threshold == env.retrievabilityThreshold
            below == average.n * threshold.d < threshold.n * average.d
        IN  /\ calls["consoleError"] = 0 =>
                  retrievability = CreateRetrievability(providerDistributions, env.sparkData)
            /\ avgProviderScore.n * average.d = average.n * avgProviderScore.d
            /\ (retrievability = <<>> \/ TotalDealSize(retrievability) = 0) =>
                  avgProviderScore = Zero
            /\ \A doc \in {returned.content[1], returned.summary} :
                  /\ (\E i \in DOMAIN doc : StartsWith(doc[i], AveragePrefix))
                        <=> (retrievability # <<>> /\ below)
                  /\ \A i \in DOMAIN doc :
                        StartsWith(doc[i], AveragePrefix) =>
                            doc[i] = AveragePrefix \o ToFixed2(average) \o "%"

\* a report has been returned with the warning for two providers whose
\* success rates 10% and 80% the deal sizes weigh down to an average of 24%
C15_Witness ==
    /\ returned.kind = "report"
    /\ Len(retrievability) = 2
    /\ avgProviderScore.n * 100 = 24 * avgProviderScore.d
    /\ env.retrievabilityThreshold = Frac(1, 2)
    /\ AveragePrefix \o "24.00%" \in Lines(returned.summary)


\* what uploadReport can return for the full document of the run
UploadLocations == {UploadUrl(fails, Path(env.issue, run, 3)) : fails \in Fails}

\* C16: the upload of the full document returns before the insert is issued,
\* the insert ends before check returns its report, the record the run inserts
\* has the location the upload returned as its file_path, and the link of the
\* 'Full report' section, the last line of the returned summary, is the link
\* to that location
C16_LinkIsUploadedAndRecorded ==
    [][/\ pc' = "awaitInsert" /\ pc # "awaitInsert" =>
             /\ pc = "awaitUpload"
             /\ contentUrl' \in UploadLocations
       /\ reports' # reports =>
             /\ pc = "awaitInsert"
             /\ Len(reports') = Len(reports) + 1
             /\ SubSeq(reports', 1, Len(reports)) = reports
             /\ reports'[Len(reports')].file_path = contentUrl
             /\ reports'[Len(reports')].client_address_id = applicationInfo[1].clientAddress
       /\ returned'.kind = "report" /\ returned.kind # "report" =>
             /\ pc = "awaitInsert"
             /\ contentUrl \in UploadLocations
             /\ contentUrl' = contentUrl
             /\ returned'.summary[Len(returned'.summary)] = FullReportLink(contentUrl)
             /\ returned'.summary[Len(returned'.summary) - 1] = FullReportHeading
             /\ \A i \in 1..(Len(returned'.summary) - 1) :
                   ~StartsWith(returned'.summary[i], "Click [here](")]_vars

\* check has returned a report whose link leads to the uploaded document, and
\* the last record of the store has that location as its file_path
C16_Witness ==
    /\ returned.kind = "report"
    /\ contentUrl = "https://files/" \o Path(env.issue, run, 3)
    /\ returned.summary[Len(returned.summary)] = FullReportLink(contentUrl)
    /\ reports # <<>>
    /\ reports[Len(reports)].file_path = contentUrl
    /\ calls["loggerError"] = 0


\* the records of a client in the order of their insertion
RecordsOf(rows, client) == SelectSeq(rows, LAMBDA r : r.client_address_id = client)

Reversed(s) == [i \in DOMAIN s |-> s[Len(s) + 1 - i]]

EndsWith(line, suffix) ==
    Len(line) >= Len(suffix)
      /\ SubSeq(line, Len(line) - Len(suffix) + 1, Len(line)) = suffix

\* the rule of section 4.4 whose finding a line states: 1 over-concentration,
\* 2 over-duplication, 3 unknown location, 4 single region, 5 low-replica
\* overage, 6 retrievability zero, 7 retrievability low, 8 retrievability below
\* the threshold, 9 CID sharing; 0 for a line that states no finding
RuleOf(line) ==
    IF ~StartsWith(line, Warning \o " ") THEN 0
    ELSE IF EndsWith(line, "% of total datacap.")
              \/ \E n \in 1..Len(Providers) :
                    StartsWith(line, Warning \o " " \o ToString(n)
                                       \o " storage providers sealed more than ")
    THEN 1
    ELSE IF EndsWith(line, " are duplicate data.")
              \/ \E n \in 1..Len(Providers) :
                    StartsWith(line, Warning \o " " \o ToString(n)
                                       \o " storage providers sealed too much duplicate data")
    THEN 2
    ELSE IF EndsWith(line, " has unknown IP location.")
              \/ \E n \in 1..Len(Providers) :
                    StartsWith(line, Warning \o " " \o ToString(n)
                                       \o " storage providers have unknown IP location")
    THEN 3
    ELSE IF line = SameRegion THEN 4
    ELSE IF EndsWith(line, " storage providers.") THEN 5
    ELSE IF EndsWith(line, " retrieval success rate equal to zero.") THEN 6
    ELSE IF EndsWith(line, " retrieval success rate less than 75%.") THEN 7
    ELSE IF StartsWith(line, AveragePrefix) THEN 8
    ELSE IF StartsWith(line, Warning \o " CID sharing has been observed.") THEN 9
    ELSE 0

\* no finding of a later rule precedes a finding of an earlier rule
InRuleOrder(doc) ==
    LET rule == [i \in DOMAIN doc |-> RuleOf(doc[i])]
    IN  \A i, j \in DOMAIN doc :
            (i < j /\ rule[i] > 0 /\ rule[j] > 0) => rule[i] <= rule[j]

\* C18 (as stated): in the summary and in the full document of a returned
\* report the findings stand in the order of the rules: over-concentration,
\* over-duplication, unknown location, single region, low-replica overage,
\* retrievability zero, retrievability low, retrievability below the threshold,
\* CID sharing
C18_FindingsInRuleOrder ==
    returned.kind = "report" =>
        InRuleOrder(returned.summary) /\ InRuleOrder(returned.content[1])


FourFetches == {"providerQuery", "replicaQuery", "cidQuery", "spark"}

\* C19 (as stated): the fetches of the provider distribution, of the
\* replication distribution, of the CID sharing and of the retrieval statistics
\* are issued together, so that once one of them has been issued all four have
\* been, and the documents are written only after the four have completed
C19_FourFetchesTogether ==
    /\ (\E k \in FourFetches : calls[k] > 0) => (\A k \in FourFetches : calls[k] > 0)
    /\ content # <<>> =>
          /\ brA = "done" /\ brB = "done" /\ brC = "done"
          /\ pc \notin {"awaitAll", "awaitRetrievability"}


\* C20 (as stated): the calls of a run are retried: a fetch of the retrieval
\* statistics that failed and an insert of the generated report that failed
\* have each been attempted more than once
C20_EveryCallIsRetried ==
    /\ calls["consoleError"] > 0 => calls["sparkAttempts"] > 1
    /\ calls["loggerError"] > 0 => calls["insertAttempts"] > 1


\* C21: an entry of the cache, once written, is never removed and never
\* replaced by a different value, however the calls for its address interleave
C21_EntryNeverChanges ==
    [][\A a \in DOMAIN cache : a \in DOMAIN cache' /\ cache'[a] = cache[a]]_vars

\* an entry of the cache, once written, is never removed
C21_EntryNeverRemoved ==
    [][DOMAIN cache \subseteq DOMAIN cache']_vars

\* two lookups of one address were in flight together and the one that
\* completed last has replaced the entry of the other by a different value
C21_Overwritten ==
    \E a \in DOMAIN finds :
        finds[a].overlapped /\ cache[a] # finds[a].first


\* the number of addresses after which a loop that asks one address at a time
\* and stops at the first that is not a bogon has stopped
StopsAfter(ips) ==
    IF \E i \in DOMAIN ips : ~IpInfo(ips[i]).bogon
    THEN CHOOSE i \in DOMAIN ips :
           /\ ~IpInfo(ips[i]).bogon
           /\ \A j \in 1..(i - 1) : IpInfo(ips[j]).bogon
    ELSE Len(ips)

\* the geo lookups of one provider that is resolved without a throw
GeoLookupsOf(net) ==
    LET c == CollectIps(net.multiaddrs, <<>>)
    IN  IF net.multiaddrs = <<>> \/ c.failed THEN 0 ELSE StopsAfter(c.ips)

RECURSIVE GeoLookupsOfFirst(_)
\* the geo lookups of the first n providers of the distribution
GeoLookupsOfFirst(n) ==
    IF n = 0 THEN 0
    ELSE GeoLookupsOfFirst(n - 1) + GeoLookupsOf(env.net[result[n].provider])

\* C22: while the locations of a run are resolved, the providers resolved so
\* far are the first of the distribution, in its order; the resolutions begun
\* exceed the resolutions completed by the one in flight and by no more; and
\* the geo lookups issued are, for each provider, the addresses up to the first
\* that is not a bogon
C22_LocationsOneAtATime ==
    brA \in {"location", "done"} =>
        /\ Len(withLocations) <= Len(result)
        /\ \A i \in DOMAIN withLocations :
               withLocations[i].provider = result[i].provider
        /\ calls["minerInfo"] = Len(withLocations) + (IF brA = "location" THEN 1 ELSE 0)
        /\ calls["geo"] = GeoLookupsOfFirst(Len(withLocations))

\* the locations of several providers are resolved, one of them a provider
\* whose first address is a bogon, whose second is not, and who has a third
C22_Witness ==
    /\ brA = "done"
    /\ Len(withLocations) >= 2
    /\ \E i \in DOMAIN withLocations :
         LET ips == CollectIps(env.net[result[i].provider].multiaddrs, <<>>).ips
         IN  /\ Len(ips) = 3
             /\ StopsAfter(ips) = 2
             /\ withLocations[i].city = IpInfo(ips[2]).city


\* the positions of the configured tiers at which the tier of the run stands
SelectedPositions == {i \in DOMAIN env.criterias : env.criterias[i] = criteria[1]}

\* the report says that restrictions have been relaxed for this allocation
MarkedEarlyAllocation(doc) ==
    \E line \in Lines(doc) : StartsWith(line, "**Since this is the ")

\* C23: the tier a run selects stands at a position of the configured list,
\* and the report of the run is marked as an early allocation exactly when that
\* position is not the last; a run for a client with no allocation selects no
\* tier and returns the error document of no previous allocation
C23_EarlyIffNotLastTier ==
    /\ criteria # <<>> =>
         /\ applicationInfo[1].numberOfAllocations >= 1
         /\ Cardinality(SelectedPositions) = 1
         /\ returned.kind = "report" =>
              (MarkedEarlyAllocation(returned.content[1])
                 <=> SelectedPositions # {Len(env.criterias)})
    /\ (applicationInfo # <<>> /\ applicationInfo[1].numberOfAllocations = 0) =>
         /\ criteria = <<>>
         /\ returned.kind # "none" => returned = ErrorDocument(NoPreviousAllocation)

\* a report is marked early with the second of three tiers, a report is not
\* marked with the last of three tiers after three allocations and more
C23_Witness ==
    /\ returned.kind = "report"
    /\ Len(env.criterias) = 3
    /\ \/ /\ applicationInfo[1].numberOfAllocations = 2
          /\ SelectedPositions = {2}
          /\ MarkedEarlyAllocation(returned.content[1])
       \/ /\ applicationInfo[1].numberOfAllocations >= 3
          /\ SelectedPositions = {3}
          /\ ~MarkedEarlyAllocation(returned.content[1])


\* C24: a call of findApplicationInfoForClient whose lookup fails after all
\* retries, in a check or in a reader of the reports, leaves the cache as it
\* was; the cache holds entries only for addresses for which a call has
\* returned a result; and a check that starts while the cache has no entry for
\* its address issues the lookup
C24_FailedLookupIsNotCached ==
    [][/\ DOMAIN cache' \subseteq DOMAIN finds'
       /\ (/\ returned.kind = "none"
           /\ returned' = Thrown("findApplicationInfoForClient")
           /\ pc = "awaitApplicationInfo") =>
              cache' = cache /\ ~CacheHas(cache', address)
       /\ (/\ read' # read /\ read'.kind = "threw"
           /\ ~CacheHas(cache, read'.address) /\ finds' = finds) =>
              cache' = cache
       /\ (/\ pc # "awaitApplicationInfo"
           /\ pc' = "awaitApplicationInfo"
           /\ ~CacheHas(cache, address')) =>
              upstreamCalls'[address'] = upstreamCalls[address'] + 1
      ]_vars

\* the lookup of a check has failed, or the lookups of several, the cache has
\* no entry for the address, and the next check has issued the lookup again
C24_Witness ==
    /\ run >= 2
    /\ pc = "awaitApplicationInfo"
    /\ ~pending.hit
    /\ ~CacheHas(cache, address)
    /\ address \notin DOMAIN finds
    /\ upstreamCalls[address] >= 2


\* the messages of the error documents of check
ErrorMessages ==
    {NoClientAddress, NoApplicationInfo, NoPreviousAllocation, NoClientId, NoActiveDeals}

\* C25: a run that ends with an error document has uploaded nothing and has
\* issued no insert; a run that ends with a full report has uploaded it and has
\* issued and attempted one insert; an insert is issued by no run that ends
\* otherwise; and the table grows by one record, in the step in which a run
\* returns its full report, or not at all
C25_InsertIffFullReport ==
    [][/\ returned'.kind = "error" =>
            /\ returned'.by \in ErrorMessages
            /\ calls'["upload"] = 0
            /\ calls'["insert"] = 0 /\ calls'["insertAttempts"] = 0
       /\ returned'.kind = "report" =>
            /\ calls'["upload"] >= 1
            /\ calls'["insert"] = 1 /\ calls'["insertAttempts"] = 1
       /\ (pc' = "done" /\ calls'["insert"] > 0) => returned'.kind = "report"
       /\ reports' # reports =>
            /\ returned.kind = "none" /\ returned'.kind = "report"
            /\ Len(reports') = Len(reports) + 1
            /\ SubSeq(reports', 1, Len(reports)) = reports
      ]_vars

\* a run has returned its full report after a run that returned one too: each
\* has attempted its one insert, and the table holds their two records
C25_Witness ==
    /\ run = 2
    /\ returned.kind = "report"
    /\ calls["insertAttempts"] = 1
    /\ Len(reports) = Len(env.stored) + 2

====
